---------------------------- MODULE Spec2Model ----------------------------
(***************************************************************************)
(* A model of powerputtygo: sqlp's reflective scanning engine and           *)
(* transactions, queryp and mapperp.                                       *)
(*                                                                         *)
(*   - reflectp.FieldsFactory / newFields   (type descriptor builder)      *)
(*   - reflectp.Fields.traverse             (column path resolver)         *)
(*   - reflectp.NewFieldsRows / Scan        (scan plan, row scan, collapse)*)
(*   - reflectp.StructFieldsFactory / Scanner (the strict, older engine)   *)
(*   - sqlp.DB.Get / DB.Select              (destination shape checks)     *)
(*   - sqlp.DB.RunInTx / queryer            (contextual transactions)      *)
(*   - queryp.NamedQuery / Template         (query builders)               *)
(*   - mapperp.One / Slice / InnerSlice     (row mappers)                  *)
(*                                                                         *)
(* Strings that the code cuts at "_" (column names, tag names, field       *)
(* names) are sequences of "_"-free atoms: "child_first_name" is           *)
(* <<"child","first","name">> and "" is <<"">>.  A struct tag is the       *)
(* sequence of its ","-separated parts.  Field indexes are Go's (0-based). *)
(***************************************************************************)
EXTENDS Integers, Sequences, FiniteSets, TLC

VARIABLES
    rootDef,      \* the fields of the struct type "Root" under construction
    fieldsCache,  \* reflectp.fieldsCache: type name -> stored *Fields / NoEntry
    fieldCache,   \* reflectp.fieldCache (StructFields engine): type name -> entry
    lastCall,     \* the outcome of the last completed top-level call
    gor,          \* goroutines inside FieldsFactory: per goroutine its frame
    nextId,       \* allocation counter: identity of the next *Fields built
    scan,         \* the FieldsRows of the running query and its current row
    db,           \* DB.Get / DB.Select / DB.Query bookkeeping
    tx,           \* the connection pool, its transactions and the RunInTx calls
    queryp,       \* queryp: the NamedQuery / Template builders in use
    mapperp       \* mapperp: the mapper's output and its row state

vars == <<rootDef, fieldsCache, fieldCache, lastCall, gor, nextId, scan, db,
          tx, queryp, mapperp>>

\* The variables of the reflective scanning engine.
reflectVars == <<rootDef, fieldsCache, fieldCache, lastCall, gor, nextId, scan, db>>

----------------------------------------------------------------------------
(* Bounds of the model. *)

\* Fields of the generated struct type "Root".
MaxFields == 2
\* Result columns of one query.
MaxCols == 2
\* Rows read by one query.
MaxRows == 2
\* Goroutines calling FieldsFactory concurrently.
NumGoroutines == 2
\* Frames on the goroutine stack before the Go runtime aborts with a
\* stack overflow (the runtime's limit is 1 GB of stack; any finite bound
\* shows the same unbounded recursion).
MaxStack == 6

----------------------------------------------------------------------------
(* Strings. *)

EmptyStr == <<"">>

\* A one-atom string.
S(a) == <<a>>

\* a + "_" + b
JoinUnderscore(a, b) == a \o b

\* strings.Cut(s, "_"): before, after ("" when there is no "_").
CutRoot(s) == <<Head(s)>>
CutRest(s) == IF Len(s) > 1 THEN Tail(s) ELSE EmptyStr

SeqToSet(q) == {q[i] : i \in DOMAIN q}

IsPrefix(p, q) == Len(p) <= Len(q) /\ SubSeq(q, 1, Len(p)) = p

IsProperPrefix(p, q) == Len(p) < Len(q) /\ SubSeq(q, 1, Len(p)) = p

----------------------------------------------------------------------------
(* reflect.Type: a chain of pointer / slice constructors over a base, which *)
(* is a basic kind or the name of a struct type.  All composite types are   *)
(* unnamed (ft.Name() = ""), as in the repository's structs.                *)

BasicKinds == {"int", "string"}

T(base) == [ctors |-> <<>>, base |-> base]
PtrTo(t) == [ctors |-> <<"ptr">> \o t.ctors, base |-> t.base]
SliceOf(t) == [ctors |-> <<"slice">> \o t.ctors, base |-> t.base]

\* reflect.Type.Kind()
Kind(t) ==
    IF t.ctors # <<>> THEN Head(t.ctors)
    ELSE IF t.base \in BasicKinds THEN t.base ELSE "struct"

\* reflect.Type.Elem()
Elem(t) == [t EXCEPT !.ctors = Tail(@)]

\* deref: the element type of a pointer, the type itself otherwise.
deref(t) == IF Kind(t) = "ptr" THEN Elem(t) ELSE t

\* reflect.StructField with its sqlp tag (the ","-separated parts).
SF(name, anonymous, exported, tag, type) ==
    [Name |-> name, Anonymous |-> anonymous, Exported |-> exported,
     Tag |-> tag, Type |-> type]

NoTag == <<EmptyStr>>
Tag1(name) == <<name>>
Tag2(name, opt) == <<name, S(opt)>>

\* The struct types of the repository's tests and examples, and the shapes
\* the claims name (cyclic types, promoted pointers, nested duplicates).
Catalog ==
    [ Time       |-> << SF(S("wall"), FALSE, FALSE, NoTag, T("int")),
                        SF(S("ext"),  FALSE, FALSE, NoTag, T("int")) >>,
      Timestamps |-> << SF(S("CreatedAt"), FALSE, TRUE, Tag1(<<"created","at">>), T("Time")),
                        SF(S("UpdatedAt"), FALSE, TRUE, Tag1(<<"updated","at">>), T("Time")) >>,
      Pet        |-> << SF(S("ID"),   FALSE, TRUE, Tag1(S("id")),   T("int")),
                        SF(S("Name"), FALSE, TRUE, Tag1(S("name")), T("string")) >>,
      Person     |-> << SF(S("ID"),    FALSE, TRUE, Tag1(S("id")),    T("int")),
                        SF(S("Name"),  FALSE, TRUE, Tag1(S("name")),  T("string")),
                        SF(S("Child"), FALSE, TRUE, Tag1(S("child")), PtrTo(T("Person"))),
                        SF(S("Pet"),   FALSE, TRUE, Tag1(S("pet")),   PtrTo(T("Pet"))) >>,
      Keeper     |-> << SF(S("ID"),    FALSE, TRUE, Tag1(S("id")),    T("int")),
                        SF(S("Child"), FALSE, TRUE, Tag1(S("child")), PtrTo(T("Keeper"))),
                        SF(S("Pet"),   FALSE, TRUE, Tag2(S("pet"), "promote"), PtrTo(T("Pet"))) >>,
      badFields  |-> << SF(S("ID"),   FALSE, TRUE, Tag1(S("id")), T("int")),
                        SF(S("Name"), FALSE, TRUE, Tag1(S("id")), T("string")) >>,
      parent     |-> << SF(S("Bad"), FALSE, TRUE, Tag1(S("bad")), T("badFields")) >>,
      Owner      |-> << SF(S("ID"),  FALSE, TRUE, Tag1(S("id")), T("int")),
                        SF(S("Pet"), TRUE,  TRUE, NoTag, T("Pet")) >>,
      Buddy      |-> << SF(S("ID"), FALSE, TRUE, Tag1(S("id")), T("int")),
                        SF(S("BestFriend"), FALSE, TRUE, Tag1(<<"best", "friend">>),
                           PtrTo(T("Pet"))) >>,
      A          |-> << SF(S("B"), FALSE, TRUE, Tag1(S("b")), PtrTo(T("B"))) >>,
      B          |-> << SF(S("A"), FALSE, TRUE, Tag1(S("a")), PtrTo(T("A"))) >> ]

CatalogNames == DOMAIN Catalog

StructNames == CatalogNames \cup {"Root"}

\* The declared fields of struct type n (t.NumField(), t.Field(i)).
StructDef(n) == IF n = "Root" THEN rootDef ELSE Catalog[n]

----------------------------------------------------------------------------
(* Struct tags. *)

\* The runes of the atoms that occur in tags.
Spelling ==
    [ a \in {"", "-", "a", "at", "b", "bad", "best", "child", "created", "friend",
             "id", "n-1", "na\\me", "name", "o", "pet", "private", "timestamps",
             "updated"} |->
        CASE a = ""           -> <<>>
          [] a = "-"          -> <<"-">>
          [] a = "a"          -> <<"a">>
          [] a = "at"         -> <<"a", "t">>
          [] a = "b"          -> <<"b">>
          [] a = "bad"        -> <<"b", "a", "d">>
          [] a = "best"       -> <<"b", "e", "s", "t">>
          [] a = "child"      -> <<"c", "h", "i", "l", "d">>
          [] a = "created"    -> <<"c", "r", "e", "a", "t", "e", "d">>
          [] a = "friend"     -> <<"f", "r", "i", "e", "n", "d">>
          [] a = "id"         -> <<"i", "d">>
          [] a = "n-1"        -> <<"n", "-", "1">>
          [] a = "na\\me"     -> <<"n", "a", "\\", "m", "e">>
          [] a = "name"       -> <<"n", "a", "m", "e">>
          [] a = "o"          -> <<"o">>
          [] a = "pet"        -> <<"p", "e", "t">>
          [] a = "private"    -> <<"p", "r", "i", "v", "a", "t", "e">>
          [] a = "timestamps" -> <<"t", "i", "m", "e", "s", "t", "a", "m", "p", "s">>
          [] a = "updated"    -> <<"u", "p", "d", "a", "t", "e", "d">> ]

RECURSIVE Runes(_)
\* for _, c := range s: the runes of the atoms with "_" between them.
Runes(s) ==
    IF Len(s) = 1 THEN Spelling[s[1]]
    ELSE Spelling[s[1]] \o <<"_">> \o Runes(Tail(s))

\* strings.ContainsRune("!#$%&()*+-./:;<=>?@[]^_{|}~ ", c)
TagPunctuation ==
    {"!", "#", "$", "%", "&", "(", ")", "*", "+", "-", ".", "/", ":", ";", "<",
     "=", ">", "?", "@", "[", "]", "^", "_", "{", "|", "}", "~", " "}

\* unicode.IsLetter / unicode.IsDigit on the runes that occur.
IsLetter(c) ==
    c \in {"a", "b", "c", "d", "e", "f", "h", "i", "l", "m", "n", "o", "p", "r",
           "s", "t", "u", "v"}
IsDigit(c) == c \in {"0", "1", "2", "3", "4", "5", "6", "7", "8", "9"}

\* parseTag: strings.Cut(tag, ",").
parseTagName(tag) == Head(tag)
parseTagOpts(tag) == Tail(tag)

\* tagOptions.Contains
Contains(opts, optionName) == \E i \in DOMAIN opts : opts[i] = S(optionName)

\* A tag name is taken whenever it is not empty, whatever its runes.
NonEmptyTag(s) == s # EmptyStr

\* The switch of isValidTag on rune c: FALSE where it returns false.
ValidRune(c) == c \in TagPunctuation \/ IsLetter(c) \/ IsDigit(c)

isValidTag(s) ==
    /\ s # EmptyStr
    /\ \A c \in SeqToSet(Runes(s)) : ValidRune(c)

----------------------------------------------------------------------------
(* Type descriptor builder: reflectp.newFields. *)

NoErr == [kind |-> "none", names |-> {}, field |-> EmptyStr, wrap |-> <<>>]

\* "duplicate column name %s"
DupErr(column) ==
    [kind |-> "duplicate column name", names |-> {column},
     field |-> EmptyStr, wrap |-> <<>>]

\* "duplicate column name %s in embedded struct %s": the range over
\* embedded.ByColumnName is in map order, so any colliding key may be the
\* one reported; names holds them all.
DupEmbeddedErr(ks, fieldName) ==
    [kind |-> "duplicate column name in embedded struct", names |-> ks,
     field |-> fieldName, wrap |-> <<>>]

\* "failed to process sub struct %s: %w"
WrapErr(fieldName, err) == [err EXCEPT !.wrap = <<fieldName>> \o @]

\* "given %v, expected struct"
KindErr(kind) ==
    [kind |-> "expected struct", names |-> {S(kind)}, field |-> EmptyStr,
     wrap |-> <<>>]

Field(column, tagged, index, directType, type) ==
    [Column |-> column, Tag |-> tagged, Index |-> index,
     DirectType |-> directType, Type |-> type]

\* The empty map[string]*Field.
EmptyMap == [c \in {} |-> 0]

\* The "Ignore cases" of newFields: the field takes no part in mapping.
Ignored(sf) ==
    \/ sf.Anonymous /\ ~sf.Exported /\ Kind(deref(sf.Type)) # "struct"
    \/ ~sf.Anonymous /\ ~sf.Exported
    \/ sf.Tag = <<S("-")>>

\* column, opts := parseTag(tag); if !isValidTag(column) { column = "" }
TagColumn(sf) ==
    IF isValidTag(parseTagName(sf.Tag)) THEN parseTagName(sf.Tag) ELSE EmptyStr

\* ft: the field's type, following one unnamed pointer.
DirectTypeOf(sf) == IF Kind(sf.Type) = "ptr" THEN Elem(sf.Type) ELSE sf.Type

Tagged(sf) == TagColumn(sf) # EmptyStr

ColumnOf(sf) == IF Tagged(sf) THEN TagColumn(sf) ELSE sf.Name

Promote(sf) ==
    /\ Contains(parseTagOpts(sf.Tag), "promote") \/ (sf.Anonymous /\ ~Tagged(sf))
    /\ Kind(DirectTypeOf(sf)) = "struct"

\* Namespacing by the kind of field instead: no prefix for an anonymous
\* embedding, the field's column and "_" for every named field.
PrefixedUnlessEmbedded(sf, k) ==
    IF sf.Anonymous THEN k ELSE JoinUnderscore(ColumnOf(sf), k)

\* The key under which embedded column k is merged into the parent.
PromotedColumn(sf, k) == IF Tagged(sf) THEN JoinUnderscore(ColumnOf(sf), k) ELSE k

\* The guard of the recursive touch: a struct type not yet in visited.
EntersSubStruct(sf, visited) ==
    Kind(DirectTypeOf(sf)) = "struct" /\ DirectTypeOf(sf).base \notin visited

\* What the recursive touch yields for a field that is not entered.
NotEntered(st) ==
    [err |-> NoErr, byCol |-> EmptyMap, visited |-> st.visited, entered |-> st.entered]

\* The keys of embedded.ByColumnName that the promote loop merges: those
\* of the struct just entered, none otherwise.
Merged(sf, sub) == IF Promote(sf) THEN DOMAIN sub.byCol ELSE {}

\* byColumnName after the promote loop: every merged column is added
\* under its (prefixed) name with the field's index put in front.
MergePromoted(byCol, sf, i, sub) ==
    [c \in DOMAIN byCol \cup {PromotedColumn(sf, k) : k \in Merged(sf, sub)} |->
        IF c \in DOMAIN byCol THEN byCol[c]
        ELSE [sub.byCol[CHOOSE k \in Merged(sf, sub) : PromotedColumn(sf, k) = c]
                EXCEPT !.Index = <<i>> \o @]]

\* byColumnName after add(column, &field) on a free column.
AddField(byCol, i, sf) ==
    [c \in DOMAIN byCol \cup {ColumnOf(sf)} |->
        IF c \in DOMAIN byCol THEN byCol[c]
        ELSE Field(ColumnOf(sf), Tagged(sf), <<i>>, DirectTypeOf(sf), sf.Type)]

\* The state with which newFields returns an error.
Failed(st, sub, err) ==
    [st EXCEPT !.err = err, !.visited = sub.visited, !.entered = sub.entered]

RECURSIVE newFieldsLoop(_, _, _)
RECURSIVE newFields(_, _, _)

\* The body of the loop for field sf (index i), sub being what the
\* recursive touch of its struct type returned.
newFieldsField(t, i, st, sf, sub) ==
    IF sub.err # NoErr
    THEN Failed(st, sub, WrapErr(sf.Name, sub.err))
    ELSE IF \E k \in Merged(sf, sub) : PromotedColumn(sf, k) \in DOMAIN st.byCol
    THEN Failed(st, sub,
                DupEmbeddedErr({k \in Merged(sf, sub) :
                                  PromotedColumn(sf, k) \in DOMAIN st.byCol}, sf.Name))
    ELSE IF ~Promote(sf) /\ ColumnOf(sf) \in DOMAIN st.byCol
    THEN Failed(st, sub, DupErr(ColumnOf(sf)))
    ELSE newFieldsLoop(t, i + 1,
            [err |-> NoErr,
             byCol |-> IF Promote(sf) THEN MergePromoted(st.byCol, sf, i, sub)
                       ELSE AddField(st.byCol, i, sf),
             visited |-> sub.visited, entered |-> sub.entered])

\* One iteration for field sf: the ignore cases, then the recursive touch
\* of a struct type not yet visited.
newFieldsStep(t, i, st, sf) ==
    IF Ignored(sf) THEN newFieldsLoop(t, i + 1, st)
    ELSE newFieldsField(t, i, st, sf,
            IF EntersSubStruct(sf, st.visited)
            THEN newFields(DirectTypeOf(sf).base, st.visited, st.entered)
            ELSE NotEntered(st))

\* "for i := 0; i < t.NumField(); i++" from field i on.  st = [err, byCol,
\* visited, entered]: the error returned (if any), byColumnName, the
\* shared visited set, the types entered so far.
newFieldsLoop(t, i, st) ==
    IF i >= Len(StructDef(t)) \/ st.err # NoErr THEN st
    ELSE newFieldsStep(t, i, st, StructDef(t)[i + 1])

\* newFields(t, visited): visited[t] = true, then the loop over the fields.
newFields(t, visited, entered) ==
    newFieldsLoop(t, 0,
        [err |-> NoErr, byCol |-> EmptyMap,
         visited |-> visited \cup {t}, entered |-> Append(entered, t)])

\* newFields(t) as FieldsFactory calls it: a fresh visited set.
newFieldsTop(t) == newFields(t, {}, <<>>)

----------------------------------------------------------------------------
(* The older engine: reflectp.newStructFields.                              *)

StructField(column, tagged, index, directType, type, isColumn) ==
    [Column |-> column, Tag |-> tagged, Index |-> index,
     DirectType |-> directType, Type |-> type, IsColumn |-> isColumn]

\* The Go runtime's "stack overflow" abort (a fatal error, not an error value).
StackOverflow ==
    [kind |-> "stack overflow", names |-> {}, field |-> EmptyStr, wrap |-> <<>>]

\* visited := map[reflect.Type]bool{}; if len(visited) > 0 { visited =
\* _visited[0] }; visited[t] = true.  The guard reads the fresh, empty map.
VisitedAtEntry(t, passed) ==
    LET visited == {} IN
    (IF Cardinality(visited) > 0 THEN passed ELSE visited) \cup {t}

\* byColumnName[column] = &field in the older engine.
AddStructField(byCol, i, sf) ==
    [c \in DOMAIN byCol \cup {ColumnOf(sf)} |->
        IF c \in DOMAIN byCol THEN byCol[c]
        ELSE StructField(ColumnOf(sf), Tagged(sf), i, DirectTypeOf(sf), sf.Type,
                         Promote(sf))]

RECURSIVE newStructFieldsLoop(_, _, _, _)
RECURSIVE newStructFields(_, _, _, _)

\* The body of the loop for field sf (index i), sub being what the
\* recursive touch of its struct type returned.
newStructFieldsField(t, i, st, sf, sub, depth) ==
    IF sub.err = StackOverflow
    THEN [st EXCEPT !.err = StackOverflow, !.entered = sub.entered]
    ELSE IF sub.err # NoErr
    THEN [st EXCEPT !.err = WrapErr(sf.Name, sub.err), !.entered = sub.entered]
    ELSE IF ColumnOf(sf) \in DOMAIN st.byCol
    THEN [st EXCEPT !.err = DupErr(ColumnOf(sf)), !.entered = sub.entered]
    ELSE newStructFieldsLoop(t, i + 1,
            [err |-> NoErr, byCol |-> AddStructField(st.byCol, i, sf),
             visited |-> st.visited, entered |-> sub.entered],
            depth)

\* One iteration for field sf: the ignore cases, then the recursive touch.
newStructFieldsStep(t, i, st, sf, depth) ==
    IF Ignored(sf) THEN newStructFieldsLoop(t, i + 1, st, depth)
    ELSE newStructFieldsField(t, i, st, sf,
            IF EntersSubStruct(sf, st.visited)
            THEN newStructFields(DirectTypeOf(sf).base, st.visited, st.entered, depth + 1)
            ELSE NotEntered(st),
            depth)

\* st = [err, byCol, visited, entered]; depth counts the frames in use.
newStructFieldsLoop(t, i, st, depth) ==
    IF i >= Len(StructDef(t)) \/ st.err # NoErr THEN st
    ELSE newStructFieldsStep(t, i, st, StructDef(t)[i + 1], depth)

newStructFields(t, passed, entered, depth) ==
    IF depth > MaxStack
    THEN [err |-> StackOverflow, byCol |-> EmptyMap,
          visited |-> passed, entered |-> entered]
    ELSE newStructFieldsLoop(t, 0,
            [err |-> NoErr, byCol |-> EmptyMap,
             visited |-> VisitedAtEntry(t, passed), entered |-> Append(entered, t)],
            depth)

newStructFieldsTop(t) == newStructFields(t, {}, <<>>, 1)

----------------------------------------------------------------------------
(* The descriptor registry: reflectp.FieldsFactory and fieldsCache.         *)

NoEntry == [id |-> 0, Type |-> "", ByColumnName |-> EmptyMap]

\* A *Fields value; id is its identity (the allocation it came from).
Fields(id, t, byCol) == [id |-> id, Type |-> t, ByColumnName |-> byCol]

\* What the first check of FieldsFactory is not: one that lets a pointer
\* through as well.
StructOrPointerOk(t) == Kind(t) \in {"struct", "ptr"}

\* The first check of FieldsFactory: t.Kind() must be reflect.Struct.
FieldsFactoryKindOk(t) == Kind(t) = "struct"

\* sync.Map.Store, which FieldsFactory does not use: the new value wins.
Store(cache, key, value) == [cache EXCEPT ![key] = value]

\* sync.Map.LoadOrStore: the entry already stored wins.
LoadOrStore(cache, key, value) ==
    IF cache[key] # NoEntry THEN cache
    ELSE [cache EXCEPT ![key] = value]

\* What the factory returns once the descriptor is in the cache.
Stored(cache, key, r) ==
    [err |-> NoErr, fields |-> cache[key], cache |-> cache, entered |-> r.entered]

\* The end of either factory, r being what the builder returned for the
\* type cached under key: the error, or LoadOrStore and the stored entry.
Built(cache, key, id, r) ==
    IF r.err # NoErr
    THEN [err |-> r.err, fields |-> NoEntry, cache |-> cache, entered |-> r.entered]
    ELSE Stored(LoadOrStore(cache, key, Fields(id, key, r.byCol)), key, r)

\* FieldsFactory(t) run without interruption on cache, the next allocation
\* being id: [err, fields, cache, entered].
FieldsFactory(t, cache, id) ==
    IF ~FieldsFactoryKindOk(t)
    THEN [err |-> KindErr(Kind(t)), fields |-> NoEntry, cache |-> cache,
          entered |-> <<>>]
    ELSE IF cache[t.base] # NoEntry
    THEN [err |-> NoErr, fields |-> cache[t.base], cache |-> cache,
          entered |-> <<>>]
    ELSE Built(cache, t.base, id, newFieldsTop(t.base))

\* StructFieldsFactory(t) of the older engine (no kind check).
StructFieldsFactory(t, cache, id) ==
    IF cache[t] # NoEntry
    THEN [err |-> NoErr, fields |-> cache[t], cache |-> cache, entered |-> <<>>]
    ELSE Built(cache, t, id, newStructFieldsTop(t))

\* The next allocation after a factory call that left cache as after.
IdAfter(cache, after, id) == IF after # cache THEN id + 1 ELSE id

\* The error as the caller sees it: one of the names the map order allows.
ErrorsSeen(err) ==
    IF err.names = {}
    THEN {[kind |-> err.kind, name |-> EmptyStr, field |-> err.field, wrap |-> err.wrap]}
    ELSE {[kind |-> err.kind, name |-> n, field |-> err.field, wrap |-> err.wrap] :
            n \in err.names}

NoErrSeen == [kind |-> "none", name |-> EmptyStr, field |-> EmptyStr, wrap |-> <<>>]

----------------------------------------------------------------------------
(* Struct types under construction: the generated type "Root".             *)

\* A field of Root; its Go name is its position's, or the type's if embedded.
Shape(anonymous, exported, tag, type) ==
    [Anonymous |-> anonymous, Exported |-> exported, Tag |-> tag, Type |-> type]

FieldShapes ==
    { Shape(FALSE, TRUE,  Tag1(S("id")), T("int")),
      Shape(FALSE, TRUE,  NoTag, T("int")),
      Shape(FALSE, TRUE,  Tag1(<<"pet", "id">>), T("int")),
      Shape(FALSE, TRUE,  Tag1(S("na\\me")), T("string")),
      Shape(FALSE, TRUE,  Tag1(S("n-1")), T("int")),
      Shape(FALSE, TRUE,  Tag1(S("pet")), T("Pet")),
      Shape(FALSE, TRUE,  Tag2(S("pet"), "promote"), T("Pet")),
      Shape(FALSE, TRUE,  Tag2(EmptyStr, "promote"), T("Pet")),
      Shape(TRUE,  TRUE,  NoTag, T("Pet")),
      Shape(TRUE,  FALSE, NoTag, T("Timestamps")),
      Shape(TRUE,  FALSE, Tag2(S("private"), "promote"), T("Timestamps")),
      Shape(FALSE, TRUE,  Tag2(S("timestamps"), "promote"), T("Timestamps")),
      Shape(TRUE,  FALSE, NoTag, T("int")),
      Shape(FALSE, TRUE,  Tag1(S("o")), PtrTo(T("Owner"))),
      Shape(FALSE, TRUE,  Tag1(S("child")), PtrTo(T("Root"))),
      Shape(FALSE, TRUE,  Tag1(S("-")), T("badFields")),
      Shape(FALSE, FALSE, NoTag, T("badFields")) }

PositionNames == <<"F0", "F1", "F2", "F3">>

ShapeField(shape, i) ==
    SF(IF shape.Anonymous THEN S(shape.Type.base) ELSE S(PositionNames[i]),
       shape.Anonymous, shape.Exported, shape.Tag, shape.Type)

\* Go rejects a struct that declares a field name twice.
ValidStruct(def) ==
    \A i, j \in DOMAIN def : i # j => def[i].Name # def[j].Name

RootDefs ==
    { def \in UNION { [1..n -> FieldShapes] : n \in 0..MaxFields } :
        ValidStruct([i \in DOMAIN def |-> ShapeField(def[i], i)]) }

\* The struct whose descriptor the scan and registry behaviours do not use.
NoRoot == <<>>

----------------------------------------------------------------------------
(* Behaviour 1: building descriptors (Repository.Validate, FieldsFactory).  *)

NoCall == [op |-> "none", type |-> "", err |-> NoErrSeen, fields |-> NoEntry,
           entered |-> <<>>]

\* The goroutines, the scan and the DB are idle in this behaviour.
IdleGor == [g \in 1..NumGoroutines |-> [pc |-> "idle"]]
NoScan == [phase |-> "none"]
NoDB == [phase |-> "none"]
NoTx == [phase |-> "none"]
NoQuery == [phase |-> "none"]
NoMapper == [phase |-> "none"]

EmptyCache == [t \in StructNames |-> NoEntry]

BuildTargets == {"Root", "parent", "A"}

InitBuild ==
    /\ rootDef \in { [i \in DOMAIN def |-> ShapeField(def[i], i)] : def \in RootDefs }
    /\ fieldsCache = EmptyCache
    /\ fieldCache = EmptyCache
    /\ lastCall = NoCall
    /\ gor = IdleGor
    /\ nextId = 1
    /\ scan = NoScan
    /\ db = NoDB
    /\ tx = NoTx
    /\ queryp = NoQuery
    /\ mapperp = NoMapper

\* The call and what it returned.
Called(op, t, e, r) ==
    [op |-> op, type |-> t, err |-> e, fields |-> r.fields, entered |-> r.entered]

\* Repository.Validate(): FieldsFactory(r.t).
Validate(t) ==
    \E r \in {FieldsFactory(T(t), fieldsCache, nextId)} :
        /\ \E e \in ErrorsSeen(r.err) : lastCall' = Called("FieldsFactory", t, e, r)
        /\ fieldsCache' = r.cache
        /\ nextId' = IdAfter(fieldsCache, r.cache, nextId)
        /\ UNCHANGED <<rootDef, fieldCache, gor, scan, db, tx, queryp, mapperp>>

\* The older engine's entry point: StructFieldsFactory(t).  A stack
\* overflow aborts the process: nothing is stored.
StructValidate(t) ==
    \E r \in {StructFieldsFactory(t, fieldCache, nextId)} :
        /\ \E e \in ErrorsSeen(r.err) : lastCall' = Called("StructFieldsFactory", t, e, r)
        /\ fieldCache' = r.cache
        /\ nextId' = IdAfter(fieldCache, r.cache, nextId)
        /\ UNCHANGED <<rootDef, fieldsCache, gor, scan, db, tx, queryp, mapperp>>

\* Types handed to the older engine in this behaviour.
OldTargets == {"A", "Person"}

NextBuild ==
    \/ \E t \in BuildTargets : Validate(t)
    \/ \E t \in OldTargets : StructValidate(t)

SpecBuild == InitBuild /\ [][NextBuild]_vars

----------------------------------------------------------------------------
(* What the claims about descriptors speak of: the column paths of a type, *)
(* read off its declaration (not off newFields).                           *)

\* Nesting of promoted structs followed when listing a type's columns.
MaxPromoteDepth == 3

RECURSIVE DeclaredColumnsFrom(_, _, _)
\* The columns fields i.. of t declare: <<[col, path]>>, one per
\* non-excluded column path, duplicates kept.
DeclaredColumnsFrom(t, i, depth) ==
    IF i >= Len(StructDef(t)) THEN <<>>
    ELSE
    LET sf   == StructDef(t)[i + 1]
        rest == DeclaredColumnsFrom(t, i + 1, depth)
        sub  == IF Promote(sf) /\ depth > 0
                THEN DeclaredColumnsFrom(DirectTypeOf(sf).base, 0, depth - 1)
                ELSE <<>>
    IN
    IF Ignored(sf) THEN rest
    ELSE IF Promote(sf)
    THEN [j \in DOMAIN sub |->
            [col |-> PromotedColumn(sf, sub[j].col), path |-> <<i>> \o sub[j].path]]
         \o rest
    ELSE <<[col |-> ColumnOf(sf), path |-> <<i>>]>> \o rest

DeclaredColumns(t) == DeclaredColumnsFrom(t, 0, MaxPromoteDepth)

\* The column names two different column paths of t share.
DuplicatedColumns(t) ==
    LET d == DeclaredColumns(t) IN
    {d[i].col : i \in {i \in DOMAIN d : \E j \in DOMAIN d : j # i /\ d[j].col = d[i].col}}

\* The struct types of the non-excluded fields of t, behind at most one pointer.
StructFieldTypes(t) ==
    { DirectTypeOf(StructDef(t)[i]).base :
        i \in { i \in DOMAIN StructDef(t) :
                  /\ ~Ignored(StructDef(t)[i])
                  /\ Kind(DirectTypeOf(StructDef(t)[i])) = "struct" } }

RECURSIVE ReachableTypes(_, _)
ReachableTypes(frontier, seen) ==
    LET next == UNION { StructFieldTypes(t) : t \in frontier } \ seen IN
    IF next = {} THEN seen ELSE ReachableTypes(next, seen \cup next)

\* The struct types nested beneath t (t itself only if it recurs).
NestedTypes(t) == ReachableTypes({t}, {})

\* No repeated element.
NoRepeats(q) == \A i, j \in DOMAIN q : i # j => q[i] # q[j]

DupKinds == {"duplicate column name", "duplicate column name in embedded struct"}

BuiltByFieldsFactory(t) == lastCall.op = "FieldsFactory" /\ lastCall.type = t


----------------------------------------------------------------------------
(* Claims about building descriptors.                                       *)

\* C3: whenever two column paths of a struct type resolve to the same
\* column name (two direct fields, a direct field and a promoted one, or
\* promoted columns of two different fields), FieldsFactory on that type
\* fails, and an error raised for the type itself names a duplicated
\* column; no descriptor is returned.
C3_DuplicateColumnsRejected ==
    \A t \in BuildTargets :
      (BuiltByFieldsFactory(t) /\ DuplicatedColumns(t) # {}) =>
        /\ lastCall.err.kind # "none"
        /\ lastCall.fields = NoEntry
        /\ lastCall.err.wrap = <<>> =>
             /\ lastCall.err.kind \in DupKinds
             /\ lastCall.err.name \in DuplicatedColumns(t)

\* C4: for a struct type with no column-name collision in it or beneath
\* it, FieldsFactory succeeds and ByColumnName holds exactly one entry per
\* declared column path, promoted entries carrying the promoting field's
\* index in front of the nested index.
C4_OneEntryPerColumnPath ==
    \A t \in BuildTargets :
      (/\ BuiltByFieldsFactory(t)
       /\ \A u \in {t} \cup NestedTypes(t) : DuplicatedColumns(u) = {}) =>
        /\ lastCall.err.kind = "none"
        /\ LET d == DeclaredColumns(t) IN
           /\ DOMAIN lastCall.fields.ByColumnName = {d[i].col : i \in DOMAIN d}
           /\ \A i \in DOMAIN d :
                lastCall.fields.ByColumnName[d[i].col].Index = d[i].path

\* C5: building a descriptor terminates and succeeds for the cyclic types
\* (a struct with a pointer to itself, two structs pointing at each other),
\* and no struct type is entered twice within one top-level build, in
\* either engine.
C5_CyclicTypesBuildOnce ==
    lastCall.op \in {"FieldsFactory", "StructFieldsFactory"} =>
        /\ NoRepeats(lastCall.entered)
        /\ lastCall.err.kind # "stack overflow"
        /\ lastCall.type \in {"A", "Person"} => lastCall.err.kind = "none"

\* C6: if a struct type nested beneath the type being built has a
\* duplicate column name of its own, the build of the outer type fails,
\* and unless the outer type fails on its own columns first, the error is
\* wrapped with the name of the field leading to the nested type.
C6_NestedTypesValidated ==
    \A t \in BuildTargets :
      (/\ BuiltByFieldsFactory(t)
       /\ \E u \in NestedTypes(t) \ {t} : DuplicatedColumns(u) # {}) =>
        /\ lastCall.err.kind # "none"
        /\ lastCall.fields = NoEntry
        /\ lastCall.err.wrap # <<>> \/ DuplicatedColumns(t) # {}


\* The promoted fields of Root: every one of them.
Promoted ==
    { i \in DOMAIN rootDef : ~Ignored(rootDef[i]) /\ Promote(rootDef[i]) }

RECURSIVE VisitFields(_, _, _, _)
\* The visited set after fields i..last of t in a build that does not
\* fail: a struct field whose type is not in it yet adds the type and what
\* the fields of that type add in turn.
VisitFields(t, i, last, visited) ==
    IF i > last THEN visited
    ELSE IF /\ ~Ignored(StructDef(t)[i])
            /\ Kind(DirectTypeOf(StructDef(t)[i])) = "struct"
            /\ DirectTypeOf(StructDef(t)[i]).base \notin visited
    THEN VisitFields(t, i + 1, last,
            VisitFields(DirectTypeOf(StructDef(t)[i]).base, 1,
                        Len(StructDef(DirectTypeOf(StructDef(t)[i]).base)),
                        visited \cup {DirectTypeOf(StructDef(t)[i]).base}))
    ELSE VisitFields(t, i + 1, last, visited)

\* The struct types in visited when the loop of newFields(Root) reaches
\* field i.
VisitedBefore(i) == VisitFields("Root", 1, i - 1, {"Root"})

\* The columns of the struct type of field sf, built on its own.
NestedColumns(sf) == DOMAIN newFieldsTop(DirectTypeOf(sf).base).byCol

\* The name of nested column k of promoted field sf: under the tag's
\* column name and "_" when the tag gives a valid one, bare otherwise.
TagPrefixed(sf, k) ==
    IF isValidTag(parseTagName(sf.Tag)) THEN JoinUnderscore(parseTagName(sf.Tag), k)
    ELSE k

\* Root was built, and of every promoted field of Root: if the build
\* enters the field's struct type at that field, every nested column is in
\* ByColumnName under the name Name(sf, k), the field's index in front; if
\* the type was visited before, no entry of ByColumnName comes from the
\* field.
MergedUnder(Name(_, _)) ==
    (BuiltByFieldsFactory("Root") /\ lastCall.err.kind = "none") =>
      \A i \in Promoted :
        IF DirectTypeOf(rootDef[i]).base \notin VisitedBefore(i)
        THEN \A k \in NestedColumns(rootDef[i]) :
               /\ Name(rootDef[i], k) \in DOMAIN lastCall.fields.ByColumnName
               /\ Head(lastCall.fields.ByColumnName[Name(rootDef[i], k)].Index) = i - 1
               /\ Len(lastCall.fields.ByColumnName[Name(rootDef[i], k)].Index) > 1
        ELSE \A c \in DOMAIN lastCall.fields.ByColumnName :
               Head(lastCall.fields.ByColumnName[c].Index) # i - 1

NameGiven(sf) ==
    /\ Runes(Head(sf.Tag)) # <<>>
    /\ \A c \in SeqToSet(Runes(Head(sf.Tag))) :
         IsLetter(c) \/ IsDigit(c) \/ c \in TagPunctuation

\* The column the claim gives field sf.
EffectiveColumn(sf) == IF NameGiven(sf) THEN Head(sf.Tag) ELSE sf.Name

\* The fields of Root that are columns themselves.
LeafFields ==
    { i \in DOMAIN rootDef : ~Ignored(rootDef[i]) /\ ~Promote(rootDef[i]) }

\* C12: a field's column is the name part of its sqlp tag when that part
\* is non-empty and holds only letters, digits and the allowed punctuation;
\* otherwise (no tag, empty name, a disallowed character) it is the field's
\* Go name, and the build fails only for duplicate columns, never for the
\* tag.
C12_EffectiveColumnName ==
    BuiltByFieldsFactory("Root") =>
      IF lastCall.err.kind = "none"
      THEN \A i \in LeafFields :
             /\ EffectiveColumn(rootDef[i]) \in DOMAIN lastCall.fields.ByColumnName
             /\ lastCall.fields.ByColumnName[EffectiveColumn(rootDef[i])].Index = <<i - 1>>
             /\ lastCall.fields.ByColumnName[EffectiveColumn(rootDef[i])].Column
                  = EffectiveColumn(rootDef[i])
             /\ lastCall.fields.ByColumnName[EffectiveColumn(rootDef[i])].Tag
                  = NameGiven(rootDef[i])
      ELSE \E u \in {"Root"} \cup NestedTypes("Root") : DuplicatedColumns(u) # {}

\* Root was built with a field whose tag name holds a backslash, mapped
\* under its Go name, and a field mapped under its tag name "n-1".
C12_Witness ==
    /\ BuiltByFieldsFactory("Root")
    /\ lastCall.err.kind = "none"
    /\ \E i, j \in LeafFields :
         /\ rootDef[i].Tag = Tag1(S("na\\me"))
         /\ lastCall.fields.ByColumnName[rootDef[i].Name].Index = <<i - 1>>
         /\ rootDef[j].Tag = Tag1(S("n-1"))
         /\ lastCall.fields.ByColumnName[S("n-1")].Index = <<j - 1>>

\* A field that takes no part in the mapping, in the claim's words: tagged
\* "-", unexported and not embedded, or unexported, embedded and no struct.
TakesNoPart(sf) ==
    \/ sf.Tag = Tag1(S("-"))
    \/ ~sf.Exported /\ ~sf.Anonymous
    \/ ~sf.Exported /\ sf.Anonymous /\ Kind(deref(sf.Type)) # "struct"

\* The fields of Root that take part.
Mapped == { i \in DOMAIN rootDef : ~TakesNoPart(rootDef[i]) }

\* The struct types reached from the fields of Root that take part.
MappedTypes ==
    ReachableTypes(
        { deref(rootDef[i].Type).base :
            i \in { j \in Mapped : Kind(deref(rootDef[j].Type)) = "struct" } },
        { deref(rootDef[i].Type).base :
            i \in { j \in Mapped : Kind(deref(rootDef[j].Type)) = "struct" } })

\* The unexported embedded structs of Root: every one of them, whatever
\* its tag (but "-") and whatever fields stand before it.
UnexportedEmbedded ==
    { i \in Mapped : rootDef[i].Anonymous /\ ~rootDef[i].Exported }

\* The columns the declaration gives field i of Root: those of its struct,
\* prefixed if its tag names a column, when it is promoted; its own column
\* otherwise.
ColumnsGiven(i) ==
    IF Promote(rootDef[i])
    THEN {TagPrefixed(rootDef[i], k) : k \in NestedColumns(rootDef[i])}
    ELSE {EffectiveColumn(rootDef[i])}

\* No entry of ByColumnName comes from a field that takes no part.
NoEntryOutsideMapping ==
    (BuiltByFieldsFactory("Root") /\ lastCall.err.kind = "none") =>
        \A c \in DOMAIN lastCall.fields.ByColumnName :
           (lastCall.fields.ByColumnName[c].Index[1] + 1) \in Mapped

\* The struct type of a field that takes no part is not entered, unless a
\* field that takes part leads to it.
TypesOutsideMappingNotEntered ==
    BuiltByFieldsFactory("Root") =>
        \A i \in DOMAIN rootDef \ Mapped :
           (/\ Kind(deref(rootDef[i].Type)) = "struct"
            /\ deref(rootDef[i].Type).base \notin MappedTypes \cup {"Root"}) =>
               deref(rootDef[i].Type).base \notin SeqToSet(lastCall.entered)

\* A failed build is explained by the fields that take part alone: the
\* struct type of one of them fails to build, or two of them are given the
\* same column; a wrapped error names one of them, and a struct of fields
\* that take no part builds to an empty map.
FailuresComeFromMapping ==
    BuiltByFieldsFactory("Root") =>
        /\ lastCall.err.kind # "none" =>
              \/ \E i \in Mapped :
                    /\ Kind(deref(rootDef[i].Type)) = "struct"
                    /\ deref(rootDef[i].Type).base # "Root"
                    /\ newFieldsTop(deref(rootDef[i].Type).base).err # NoErr
              \/ \E i, j \in Mapped :
                    i # j /\ ColumnsGiven(i) \cap ColumnsGiven(j) # {}
        /\ lastCall.err.wrap # <<>> =>
              \E i \in Mapped : rootDef[i].Name = lastCall.err.wrap[1]
        /\ Mapped = {} =>
              /\ lastCall.err.kind = "none"
              /\ DOMAIN lastCall.fields.ByColumnName = {}

\* Every unexported embedded struct of Root is in the descriptor: each
\* column of its struct type under the name the declaration gives it, the
\* field's index in front of the nested one, when it is promoted; the
\* field's own column otherwise.
UnexportedEmbeddedContribute ==
    (BuiltByFieldsFactory("Root") /\ lastCall.err.kind = "none") =>
        \A i \in UnexportedEmbedded :
           IF Promote(rootDef[i])
           THEN \A k \in NestedColumns(rootDef[i]) :
                   /\ TagPrefixed(rootDef[i], k) \in DOMAIN lastCall.fields.ByColumnName
                   /\ lastCall.fields.ByColumnName[TagPrefixed(rootDef[i], k)].Index
                        = <<i - 1>> \o
                          newFieldsTop(deref(rootDef[i].Type).base).byCol[k].Index
           ELSE /\ EffectiveColumn(rootDef[i]) \in DOMAIN lastCall.fields.ByColumnName
                /\ lastCall.fields.ByColumnName[EffectiveColumn(rootDef[i])].Index
                     = <<i - 1>>

\* C27: fields that take no part in mapping.  For the descriptor built
\* for a struct, a field tagged "-", an unexported field that is not
\* embedded and an unexported embedded field of non-struct type have no
\* entry in ByColumnName and cannot make the build fail (their struct
\* types are not entered and every failure is explained by the other
\* fields), while every unexported embedded struct contributes the
\* columns of its exported fields.
C27_FieldsOutsideMapping ==
    /\ NoEntryOutsideMapping
    /\ TypesOutsideMappingNotEntered
    /\ FailuresComeFromMapping
    /\ UnexportedEmbeddedContribute

----------------------------------------------------------------------------
(* Behaviour 2: goroutines calling FieldsFactory concurrently.  Each       *)
(* sync.Map operation is one atomic step; newFields works on local data.   *)

\* The types the goroutines ask for.
CacheTargets == {T("Person"), T("A"), T("parent"), PtrTo(T("Person"))}

GorIdle == [pc |-> "idle", type |-> T(""), built |-> NoEntry, ret |-> NoEntry,
            err |-> NoErrSeen]

InitCache ==
    /\ rootDef = NoRoot
    /\ fieldsCache = EmptyCache
    /\ fieldCache = EmptyCache
    /\ lastCall = NoCall
    /\ gor = [g \in 1..NumGoroutines |-> GorIdle]
    /\ nextId = 1
    /\ scan = NoScan
    /\ db = NoDB
    /\ tx = NoTx
    /\ queryp = NoQuery
    /\ mapperp = NoMapper

\* A goroutine calls FieldsFactory(t).
GoCall(g, t) ==
    /\ gor[g].pc = "idle"
    /\ gor' = [gor EXCEPT ![g] = [GorIdle EXCEPT !.pc = "load", !.type = t]]
    /\ UNCHANGED <<rootDef, fieldsCache, fieldCache, lastCall, nextId, scan, db, tx, queryp, mapperp>>

\* The kind check, then fieldsCache.Load(t).
GoLoad(g) ==
    /\ gor[g].pc = "load"
    /\ LET t == gor[g].type IN
       gor' = [gor EXCEPT ![g] =
                 IF ~FieldsFactoryKindOk(t)
                 THEN [@ EXCEPT !.pc = "done",
                                !.err = CHOOSE e \in ErrorsSeen(KindErr(Kind(t))) : TRUE]
                 ELSE IF fieldsCache[t.base] # NoEntry
                 THEN [@ EXCEPT !.pc = "done", !.ret = fieldsCache[t.base]]
                 ELSE [@ EXCEPT !.pc = "build"]]
    /\ UNCHANGED <<rootDef, fieldsCache, fieldCache, lastCall, nextId, scan, db, tx, queryp, mapperp>>

\* f, err := newFields(t): a new *Fields is allocated on success.
GoBuild(g) ==
    /\ gor[g].pc = "build"
    /\ LET t == gor[g].type.base
           r == newFieldsTop(t)
       IN IF r.err # NoErr
          THEN /\ \E e \in ErrorsSeen(r.err) :
                    gor' = [gor EXCEPT ![g] = [@ EXCEPT !.pc = "done", !.err = e]]
               /\ nextId' = nextId
          ELSE /\ gor' = [gor EXCEPT ![g] =
                            [@ EXCEPT !.pc = "store",
                                      !.built = Fields(nextId, t, r.byCol)]]
               /\ nextId' = nextId + 1
    /\ UNCHANGED <<rootDef, fieldsCache, fieldCache, lastCall, scan, db, tx, queryp, mapperp>>

\* fCache, _ := fieldsCache.LoadOrStore(t, f); return fCache.
GoStore(g) ==
    /\ gor[g].pc = "store"
    /\ LET t == gor[g].type.base
           stored == LoadOrStore(fieldsCache, t, gor[g].built)
       IN /\ fieldsCache' = stored
          /\ gor' = [gor EXCEPT ![g] = [@ EXCEPT !.pc = "done", !.ret = stored[t]]]
    /\ UNCHANGED <<rootDef, fieldCache, lastCall, nextId, scan, db, tx, queryp, mapperp>>

\* The caller has used the result and is free to call again.
GoReturn(g) ==
    /\ gor[g].pc = "done"
    /\ gor' = [gor EXCEPT ![g] = GorIdle]
    /\ UNCHANGED <<rootDef, fieldsCache, fieldCache, lastCall, nextId, scan, db, tx, queryp, mapperp>>

NextCache ==
    \E g \in 1..NumGoroutines :
        \/ \E t \in CacheTargets : GoCall(g, t)
        \/ GoLoad(g)
        \/ GoBuild(g)
        \/ GoStore(g)
        \/ GoReturn(g)

SpecCache == InitCache /\ [][NextCache]_vars

\* C7: every FieldsFactory call that returns a descriptor returns the one
\* stored in fieldsCache for its type, however the calls interleave, and
\* an entry of fieldsCache, once stored, is never replaced or removed.
C7_OneDescriptorPerType ==
    /\ [](\A g \in 1..NumGoroutines :
            (gor[g].pc = "done" /\ gor[g].err.kind = "none") =>
               /\ gor[g].ret # NoEntry
               /\ gor[g].ret = fieldsCache[gor[g].type.base])
    /\ [][\A t \in StructNames :
            fieldsCache[t] # NoEntry => fieldsCache'[t] = fieldsCache[t]]_vars

\* Two goroutines both missed the cache and each built a descriptor of its
\* own for the same type; both calls have returned the same stored one.
C7_Witness ==
    \E g, h \in 1..NumGoroutines :
        /\ g # h
        /\ gor[g].pc = "done" /\ gor[h].pc = "done"
        /\ gor[g].type = gor[h].type
        /\ gor[g].built # NoEntry /\ gor[h].built # NoEntry
        /\ gor[g].built.id # gor[h].built.id
        /\ gor[g].ret = gor[h].ret
        /\ gor[g].ret = fieldsCache[gor[g].type.base]


----------------------------------------------------------------------------
(* Values.  A basic value is 0 (the zero value) or 1 (any other value); a  *)
(* pointer is <<>> (nil) or <<v>>; a struct is the sequence of its fields.  *)

RECURSIVE ZeroValue(_)
RECURSIVE ZeroFields(_, _)

\* The zero values of the fields of a struct from field i on, in order.
ZeroFields(def, i) ==
    IF i > Len(def) THEN <<>>
    ELSE <<ZeroValue(def[i].Type)>> \o ZeroFields(def, i + 1)

\* reflect.Zero(t) / the value reflect.New(t) points at.
ZeroValue(t) ==
    IF Kind(t) \in {"ptr", "slice"} THEN <<>>
    ELSE IF Kind(t) = "struct" THEN ZeroFields(StructDef(t.base), 1)
    ELSE 0

RECURSIVE IsZero(_, _)
\* reflect.Value.IsZero for a value v of type t.
IsZero(v, t) ==
    IF Kind(t) \in {"ptr", "slice"} THEN Len(v) = 0
    ELSE IF Kind(t) = "struct"
    THEN \A i \in 1..Len(StructDef(t.base)) : IsZero(v[i], StructDef(t.base)[i].Type)
    ELSE v = 0

\* The type of field i (0-based) of struct type n.
FieldType(n, i) == StructDef(n)[i + 1].Type

\* Field.Fields(): the descriptor of the field's struct type, nil when the
\* field is no struct or FieldsFactory fails (the error is dropped).
HasFields(field) ==
    /\ Kind(field.DirectType) = "struct"
    /\ newFieldsTop(field.DirectType.base).err = NoErr

\* ByColumnName of the descriptor FieldsFactory gives for struct type n.
ByColumnName(n) == newFieldsTop(n).byCol

NoField == Field(EmptyStr, FALSE, <<>>, T(""), T(""))

\* One call of the traverse callback: cb(field, path, isColumn).
Callback(found, field, path, isColumn) ==
    [found |-> found, field |-> field, path |-> path, isColumn |-> isColumn]

\* cb(nil, nil, true): the column is not found.
NotFound(touched) ==
    [cbs |-> <<Callback(FALSE, NoField, <<>>, TRUE)>>, touched |-> touched]

\* The nested traverse returned sub; then cb(field, path2, false).
traverseNested(field, path2, sub) ==
    [cbs |-> Append(sub.cbs, Callback(TRUE, field, path2, FALSE)),
     touched |-> <<field.DirectType.base>> \o sub.touched]

RECURSIVE traverse(_, _, _)

\* "Could be a sub field": field is ByColumnName[root].
traverseSub(field, rest, path) ==
    IF ~HasFields(field)
    THEN NotFound(IF Kind(field.DirectType) = "struct"
                  THEN <<field.DirectType.base>> ELSE <<>>)
    ELSE traverseNested(field, path \o field.Index,
                        traverse(field.DirectType.base, rest, path \o field.Index))

\* One iteration of the loop over cols, by being f.ByColumnName.
traverseCol(by, col, path) ==
    IF col \in DOMAIN by
    THEN [cbs |-> <<Callback(TRUE, by[col], path \o by[col].Index, TRUE)>>,
          touched |-> <<>>]
    ELSE IF CutRoot(col) \notin DOMAIN by THEN NotFound(<<>>)
    ELSE traverseSub(by[CutRoot(col)], CutRest(col), path)

\* Fields.traverse for one column: [cbs, touched], the callbacks in call
\* order and the struct types whose descriptor Field.Fields() fetched.
traverse(n, col, path) == traverseCol(ByColumnName(n), col, path)

\* The callbacks of one column followed by those of the next ones.
Callbacks(one, more) ==
    [cbs |-> one.cbs \o more.cbs, touched |-> one.touched \o more.touched]

RECURSIVE traverseAll(_, _, _)
\* The loop "for i := range cols" of the top-level traverse call.
traverseAll(n, cols, i) ==
    IF i > Len(cols) THEN [cbs |-> <<>>, touched |-> <<>>]
    ELSE Callbacks(traverse(n, cols[i], <<>>), traverseAll(n, cols, i + 1))

RECURSIVE SortDeepestFirst(_)
\* slices.SortFunc(zeroNilFields, cmp.Compare(len(b), len(a))).  The order
\* of paths of equal length is left open by the map iteration and the
\* sort; they are not prefixes of one another, so it does not matter.
SortDeepestFirst(paths) ==
    IF paths = {} THEN <<>>
    ELSE LET p == CHOOSE p \in paths : \A q \in paths : Len(q) <= Len(p)
         IN <<p>> \o SortDeepestFirst(paths \ {p})

\* The targeter compiled for a column callback.
Targeter(cb) ==
    IF ~cb.found THEN [kind |-> "discard", path |-> <<>>]
    ELSE IF Len(cb.path) = 1 THEN [kind |-> "direct", path |-> cb.path]
    ELSE [kind |-> "deep", path |-> cb.path]

\* Targeters for the columns that resolved only.
ResolvedTargeters(colCbs) ==
    LET r == SelectSeq(colCbs, LAMBDA cb : cb.found)
    IN [i \in DOMAIN r |-> Targeter(r[i])]

\* sr.targeters: one targeter per column callback, in column order.
Targeters(colCbs) == [i \in DOMAIN colCbs |-> Targeter(colCbs[i])]

\* zeroNilsByPath: the paths of the intermediate callbacks on pointer fields.
ZeroNilsByPath(nilCbs) == {nilCbs[i].path : i \in DOMAIN nilCbs}

\* The FieldsRows built from what traverse reported in tr.
FieldsRows(n, cols, tr) ==
    [type |-> n,
     cols |-> cols,
     targeters |-> Targeters(SelectSeq(tr.cbs, LAMBDA cb : cb.isColumn)),
     zeroNilFields |-> SortDeepestFirst(ZeroNilsByPath(
         SelectSeq(tr.cbs, LAMBDA cb : ~cb.isColumn /\ Kind(cb.field.Type) = "ptr"))),
     touched |-> tr.touched]

\* NewFieldsRows(f, rows) for the descriptor of struct type n and the
\* result columns cols: the targeters, one per column, and zeroNilFields.
NewFieldsRows(n, cols) == FieldsRows(n, cols, traverseAll(n, cols, 1))

RECURSIVE TouchFresh(_, _, _)
\* A walk that puts a new zero struct behind every pointer before the leaf.
TouchFresh(sv, n, path) ==
    IF Len(path) <= 1 THEN sv
    ELSE LET i  == path[1]
             ft == FieldType(n, i)
             fv == sv[i + 1]
         IN IF Kind(ft) = "ptr"
            THEN [sv EXCEPT ![i + 1] =
                    <<TouchFresh(ZeroValue(deref(ft)), deref(ft).base, Tail(path))>>]
            ELSE [sv EXCEPT ![i + 1] = TouchFresh(fv, ft.base, Tail(path))]

RECURSIVE Touch(_, _, _)
\* The default targeter's walk along path in struct value sv of type n:
\* every nil pointer before the leaf is set to a new zero struct.
Touch(sv, n, path) ==
    IF Len(path) <= 1 THEN sv
    ELSE LET i  == path[1]
             ft == FieldType(n, i)
             fv == sv[i + 1]
         IN IF Kind(ft) = "ptr"
            THEN [sv EXCEPT ![i + 1] =
                    <<Touch(IF Len(fv) = 0 THEN ZeroValue(deref(ft)) ELSE fv[1],
                            deref(ft).base, Tail(path))>>]
            ELSE [sv EXCEPT ![i + 1] = Touch(fv, ft.base, Tail(path))]

RECURSIVE Store1(_, _, _, _)
\* rows.Scan writing x through the address a targeter returned for path.
Store1(sv, n, path, x) ==
    LET i  == path[1]
        ft == FieldType(n, i)
        fv == sv[i + 1]
    IN IF Len(path) = 1 THEN [sv EXCEPT ![i + 1] = x]
       ELSE IF Kind(ft) = "ptr"
       THEN [sv EXCEPT ![i + 1] = <<Store1(fv[1], deref(ft).base, Tail(path), x)>>]
       ELSE [sv EXCEPT ![i + 1] = Store1(fv, ft.base, Tail(path), x)]

RECURSIVE TouchAll(_, _, _, _)
\* for i := range sr.targeters { sr.targets[i] = sr.targeters[i](val) }
TouchAll(sv, n, targeters, i) ==
    IF i > Len(targeters) THEN sv
    ELSE TouchAll(IF targeters[i].kind = "deep" THEN Touch(sv, n, targeters[i].path)
                  ELSE sv,
                  n, targeters, i + 1)

RECURSIVE StoreAll(_, _, _, _, _)
\* sr.Rows.Scan(sr.targets...): column i of the row goes to target i; a
\* discard target (new(any)) takes the value and is dropped.
StoreAll(sv, n, targeters, row, i) ==
    IF i > Len(targeters) THEN sv
    ELSE StoreAll(IF targeters[i].kind = "discard" THEN sv
                  ELSE Store1(sv, n, targeters[i].path, row[i]),
                  n, targeters, row, i + 1)

RECURSIVE NilOut(_, _, _)
\* One pass of the post-processing loop for path: [ok, val].  ok is FALSE
\* when reflect.Indirect(v) is invalid on the way ("failed to nil out field
\* on path"); otherwise the pointer at path is set to nil if it points at
\* a zero struct.
NilOut(sv, n, path) ==
    LET i  == path[1]
        ft == FieldType(n, i)
        fv == sv[i + 1]
    IN IF Len(path) = 1
       THEN [ok |-> TRUE,
             val |-> IF Len(fv) > 0 /\ IsZero(fv[1], deref(ft))
                     THEN [sv EXCEPT ![i + 1] = <<>>] ELSE sv]
       ELSE IF Kind(ft) = "ptr"
       THEN IF Len(fv) = 0 THEN [ok |-> FALSE, val |-> sv]
            ELSE LET r == NilOut(fv[1], deref(ft).base, Tail(path))
                 IN [ok |-> r.ok, val |-> [sv EXCEPT ![i + 1] = <<r.val>>]]
       ELSE LET r == NilOut(fv, ft.base, Tail(path))
            IN [ok |-> r.ok, val |-> [sv EXCEPT ![i + 1] = r.val]]

RECURSIVE NilOutAll(_, _, _, _)

\* The loop goes on after path i unless it returned the error.
NilOutNext(r, n, paths, i) ==
    IF ~r.ok THEN r ELSE NilOutAll(r.val, n, paths, i + 1)

\* for _, path := range sr.zeroNilFields { ... }, stopping at the first error.
NilOutAll(sv, n, paths, i) ==
    IF i > Len(paths) THEN [ok |-> TRUE, val |-> sv]
    ELSE NilOutNext(NilOut(sv, n, paths[i]), n, paths, i)

\* reflect.Value{}
NoValue == <<>>

ScanFailed == [kind |-> "failed to scan row", name |-> EmptyStr,
               field |-> EmptyStr, wrap |-> <<>>]
NilOutFailed == [kind |-> "failed to nil out field on path", name |-> EmptyStr,
                 field |-> EmptyStr, wrap |-> <<>>]

\* sr.Rows.Scan returns nil: every column is stored.
NoFailure == 0

\* What database/sql's Rows.Scan may do with a row and the targets of sr:
\* NoFailure, or fail on column j with the columns before j stored (it
\* assigns the columns in order and returns at the first that fails).  It
\* may fail before any column; a discard target, a *any, takes any value.
DriverOutcomes(sr) ==
    {NoFailure} \cup
    {j \in DOMAIN sr.targeters : j = 1 \/ sr.targeters[j].kind # "discard"}

\* The struct when sr.Rows.Scan has failed on column failAt.
StoreBefore(sv, n, targeters, row, failAt) ==
    StoreAll(sv, n, SubSeq(targeters, 1, failAt - 1), row, 1)

\* What Scan returns: partial is the value as a failing sr.Rows.Scan left
\* it, stored the value after a successful one, nilled after the
\* post-processing loop.
Scanned(failAt, partial, stored, nilled) ==
    IF failAt # NoFailure
    THEN [err |-> ScanFailed, val |-> NoValue, filled |-> partial]
    ELSE IF ~nilled.ok THEN [err |-> NilOutFailed, val |-> NoValue, filled |-> stored]
    ELSE [err |-> NoErrSeen, val |-> nilled.val, filled |-> stored]

\* sr.Rows.Scan has returned: the error, or the post-processing loop.
PostProcess(sr, partial, stored, failAt) ==
    Scanned(failAt, partial, stored, NilOutAll(stored, sr.type, sr.zeroNilFields, 1))

\* The targets are set: sr.Rows.Scan(sr.targets...).
RowsScan(sr, touched, row, failAt) ==
    PostProcess(sr, StoreBefore(touched, sr.type, sr.targeters, row, failAt),
                StoreAll(touched, sr.type, sr.targeters, row, 1), failAt)

\* FieldsRows.Scan(val) on the struct value sv that val points at; row is
\* the current row and failAt what database/sql's Scan does with it.
\* [err, val, filled]: val is the value returned (reflect.Value{} on an
\* error), filled the struct as rows.Scan left it.
Scan(sr, sv, row, failAt) ==
    RowsScan(sr, TouchAll(sv, sr.type, sr.targeters, 1), row, failAt)

----------------------------------------------------------------------------
(* Behaviour 3: rows of a query scanned into a struct type.                *)

\* The struct types rows are scanned into.
ScanTypes == {"Person", "Keeper"}

\* The result columns a query may return.
ColumnPool ==
    { <<"id">>, <<"name">>, <<"child", "id">>, <<"child", "child", "id">>,
      <<"child", "pet", "id">>, <<"pet", "id">>, <<"pet", "name">>,
      <<"bogus">>, <<"child", "bogus">>, <<"child", "child", "bogus">> }

\* rows.Columns(): up to MaxCols distinct columns.
ColumnLists ==
    { cols \in UNION { [1..k -> ColumnPool] : k \in 1..MaxCols } :
        \A i, j \in DOMAIN cols : i # j => cols[i] # cols[j] }

RECURSIVE StoreTouched(_, _, _)

\* Field.Fields() going through FieldsFactory for each nested type in
\* touched: the descriptor is stored in fieldsCache on first use.
StoreTouched(cache, id, touched) ==
    IF touched = <<>> THEN [cache |-> cache, id |-> id]
    ELSE StoreTouched(FieldsFactory(T(Head(touched)), cache, id).cache,
                      IdAfter(cache, FieldsFactory(T(Head(touched)), cache, id).cache, id),
                      Tail(touched))

InitScan ==
    /\ rootDef = NoRoot
    /\ fieldsCache = EmptyCache
    /\ fieldCache = EmptyCache
    /\ lastCall = NoCall
    /\ gor = IdleGor
    /\ nextId = 1
    /\ scan = NoScan
    /\ db = NoDB
    /\ tx = NoTx
    /\ queryp = NoQuery
    /\ mapperp = NoMapper

\* destFields, _ := FieldsFactory(t); fRows, err := destFields.Rows(rows)
\* for a query returning cols.
Rows(n, cols) ==
    /\ scan.phase = "none"
    /\ \E f \in {FieldsFactory(T(n), fieldsCache, nextId)},
          sr \in {NewFieldsRows(n, cols)} :
          /\ f.err = NoErr
          /\ \E st \in {StoreTouched(f.cache, IdAfter(fieldsCache, f.cache, nextId),
                                     sr.touched)} :
                /\ fieldsCache' = st.cache
                /\ nextId' = st.id
          /\ scan' = [phase |-> "rows", sr |-> sr, scanned |-> 0]
    /\ UNCHANGED <<rootDef, fieldCache, lastCall, gor, db, tx, queryp, mapperp>>

\* The scan after fRows.Scan() returned r for row.
RowScanned(row, r) ==
    [phase |-> IF r.err.kind = "none" THEN "scanned" ELSE "failed",
     sr |-> scan.sr, scanned |-> scan.scanned + 1,
     row |-> row, err |-> r.err, val |-> r.val, filled |-> r.filled]

\* rows.Next() is true and fRows.Scan() runs on a new value.
ScanRow(row, failAt) ==
    /\ scan.phase \in {"rows", "scanned"}
    /\ scan.scanned < MaxRows
    /\ Len(row) = Len(scan.sr.cols)
    /\ failAt \in DriverOutcomes(scan.sr)
    /\ scan' = RowScanned(row, Scan(scan.sr, ZeroValue(T(scan.sr.type)), row, failAt))
    /\ UNCHANGED <<rootDef, fieldsCache, fieldCache, lastCall, gor, nextId, db, tx, queryp, mapperp>>

\* rows.Close(): the caller is done with the result set.
RowsClose ==
    /\ scan.phase \in {"rows", "scanned", "failed"}
    /\ scan' = NoScan
    /\ UNCHANGED <<rootDef, fieldsCache, fieldCache, lastCall, gor, nextId, db, tx, queryp, mapperp>>

\* The rows of a result set with k columns.
RowValues(k) == [1..k -> {0, 1}]

NextScan ==
    \/ \E n \in ScanTypes, cols \in ColumnLists : Rows(n, cols)
    \/ \E k \in 1..MaxCols, failAt \in 0..MaxCols : \E row \in RowValues(k) :
          ScanRow(row, failAt)
    \/ RowsClose

SpecScan == InitScan /\ [][NextScan]_vars

\* Result columns of queries on a struct whose relation field has an
\* underscore in its column name.
BuddyColumns ==
    { <<"id">>, <<"best", "friend">>, <<"best", "friend", "id">>,
      <<"best", "friend", "name">>, <<"best", "id">>, <<"friend", "id">> }

BuddyColumnLists ==
    { cols \in UNION { [1..k -> BuddyColumns] : k \in 1..MaxCols } :
        \A i, j \in DOMAIN cols : i # j => cols[i] # cols[j] }

NextBuddy ==
    \/ \E cols \in BuddyColumnLists : Rows("Buddy", cols)
    \/ \E k \in 1..MaxCols, failAt \in 0..MaxCols : \E row \in RowValues(k) :
          ScanRow(row, failAt)
    \/ RowsClose

SpecBuddy == InitScan /\ [][NextBuddy]_vars

----------------------------------------------------------------------------
(* Behaviour 3, concurrently: goroutines that prepare row scanning for the *)
(* same types.  The descriptors are shared through fieldsCache, and so are *)
(* their Field entries; Field.fields, the sub-descriptor a Field caches,   *)
(* is kept by owner type and column.  Each access to shared memory is one  *)
(* step.                                                                   *)

\* The struct type the goroutines scan into.
SharedTypes == {"Person"}

\* The result column a goroutine prepares.
SharedColumns ==
    { <<"id">>, <<"pet", "id">>, <<"child", "pet", "id">> }

\* The Fields of the descriptors of the scanned types that are structs:
\* <<owner type, column>>.
StructFieldsOf ==
    { <<"Person", <<"child">>>>, <<"Person", <<"pet">>>> }

\* f.fields == nil
NilFields == 0

RECURSIVE FieldsCalls(_, _)
\* The Fields on which traverse calls Field.Fields() for column col of
\* struct type n with DirectType a struct, in call order.
FieldsCalls(n, col) ==
    IF col \in DOMAIN ByColumnName(n) \/ CutRoot(col) \notin DOMAIN ByColumnName(n)
    THEN <<>>
    ELSE IF Kind(ByColumnName(n)[CutRoot(col)].DirectType) # "struct" THEN <<>>
    ELSE << <<n, CutRoot(col)>> >> \o
         FieldsCalls(ByColumnName(n)[CutRoot(col)].DirectType.base, CutRest(col))

\* Nothing is known to have been written to a Field.
NoneSeen == {}

\* A goroutine outside any call: pc is its position, type the argument of
\* the FieldsFactory call it is in, from the caller of that call, built the
\* *Fields newFields gave it, ret what FieldsFactory returned, calls the
\* Field.Fields() calls traverse has still to make, seen the Fields whose
\* written fields member this goroutine is certain to read (its own
\* writes, and those ordered before it through fieldsCache).
SharedIdle ==
    [pc |-> "idle", type |-> "", from |-> "rows", built |-> NoEntry,
     ret |-> NoEntry, calls |-> <<>>, seen |-> NoneSeen]

InitShared ==
    /\ rootDef = NoRoot
    /\ fieldsCache = EmptyCache
    /\ fieldCache = EmptyCache
    /\ lastCall = NoCall
    /\ gor = [g \in 1..NumGoroutines |-> SharedIdle]
    /\ nextId = 1
    /\ scan = [phase |-> "shared",
               fields |-> [f \in StructFieldsOf |-> NilFields],
               released |-> [n \in DOMAIN EmptyCache |-> NoneSeen]]
    /\ db = NoDB
    /\ tx = NoTx
    /\ queryp = NoQuery
    /\ mapperp = NoMapper

\* FieldsFactory has returned ret to its caller: NewFieldsRows goes on to
\* traverse, Field.Fields to its assignment.
Returned(s, ret) ==
    [s EXCEPT !.ret = ret,
              !.pc = IF s.from = "rows" THEN "traverse" ELSE "assign"]

\* destFields, _ := FieldsFactory(t) is called for the rows of column col;
\* the kind check passes, t being a struct.
GoRows(g, n, col) ==
    /\ gor[g].pc = "idle"
    /\ gor' = [gor EXCEPT ![g] =
                 [@ EXCEPT !.pc = "load", !.type = n, !.from = "rows",
                           !.calls = FieldsCalls(n, col)]]
    /\ UNCHANGED <<rootDef, fieldsCache, fieldCache, lastCall, nextId, scan, db, tx, queryp, mapperp>>

\* FieldsFactory: `if f, ok := fieldsCache.Load(t); ok { return f }`.  A
\* Load that finds the entry is ordered after the store that put it there.
GoFactoryLoad(g) ==
    /\ gor[g].pc = "load"
    /\ gor' = [gor EXCEPT ![g] =
                 IF fieldsCache[gor[g].type] # NoEntry
                 THEN [Returned(@, fieldsCache[gor[g].type]) EXCEPT
                          !.seen = @ \cup scan.released[gor[g].type]]
                 ELSE [@ EXCEPT !.pc = "build"]]
    /\ UNCHANGED <<rootDef, fieldsCache, fieldCache, lastCall, nextId, scan, db, tx, queryp, mapperp>>

\* FieldsFactory: f, err := newFields(t), a new *Fields on success.
GoFactoryBuild(g) ==
    /\ gor[g].pc = "build"
    /\ \E r \in {newFieldsTop(gor[g].type)} :
          IF r.err # NoErr
          THEN /\ gor' = [gor EXCEPT ![g] =
                            IF gor[g].from = "rows"
                            THEN [SharedIdle EXCEPT !.seen = gor[g].seen]
                            ELSE Returned(@, NoEntry)]
               /\ nextId' = nextId
          ELSE /\ gor' = [gor EXCEPT ![g] =
                            [@ EXCEPT !.pc = "store",
                                      !.built = Fields(nextId, gor[g].type, r.byCol)]]
               /\ nextId' = nextId + 1
    /\ UNCHANGED <<rootDef, fieldsCache, fieldCache, lastCall, scan, db, tx, queryp, mapperp>>

\* FieldsFactory: fCache, _ := fieldsCache.LoadOrStore(t, f); return fCache.
\* The store publishes what the goroutine has written so far.
GoFactoryStore(g) ==
    /\ gor[g].pc = "store"
    /\ \E t \in {gor[g].type} :
       \E stored \in {LoadOrStore(fieldsCache, t, gor[g].built)} :
          /\ fieldsCache' = stored
          /\ scan' = IF fieldsCache[t] = NoEntry
                     THEN [scan EXCEPT !.released[t] = gor[g].seen]
                     ELSE scan
          /\ gor' = [gor EXCEPT ![g] =
                       [Returned(@, stored[t]) EXCEPT
                          !.built = NoEntry,
                          !.seen = @ \cup scan.released[t]]]
    /\ UNCHANGED <<rootDef, fieldCache, lastCall, nextId, db, tx, queryp, mapperp>>

\* What the unsynchronised read of f.fields may give goroutine g: the
\* value written last, or nil as newFields left it when no write to f is
\* ordered before the read.
FieldsRead(g, f) ==
    IF f \in gor[g].seen THEN {scan.fields[f]}
    ELSE {scan.fields[f], NilFields}

\* Field.Fields(): `if f.fields != nil { return f.fields }`, and on nil the
\* call of FieldsFactory(f.DirectType).
GoFieldsLoad(g) ==
    /\ gor[g].pc = "traverse"
    /\ gor[g].calls # <<>>
    /\ \E f \in {Head(gor[g].calls)} :
       \E read \in FieldsRead(g, f) :
          gor' = [gor EXCEPT ![g] =
                    IF read # NilFields
                    THEN [@ EXCEPT !.calls = Tail(@), !.seen = @ \cup {f}]
                    ELSE [@ EXCEPT !.pc = "load", !.from = "field",
                                   !.type = ByColumnName(f[1])[f[2]].DirectType.base]]
    /\ UNCHANGED <<rootDef, fieldsCache, fieldCache, lastCall, nextId, scan, db, tx, queryp, mapperp>>

\* Field.Fields(): f.fields = fields; return fields.
GoFieldsStore(g) ==
    /\ gor[g].pc = "assign"
    /\ \E f \in {Head(gor[g].calls)} :
          /\ scan' = [scan EXCEPT !.fields[f] =
                        IF gor[g].ret = NoEntry THEN NilFields ELSE gor[g].ret.id]
          /\ gor' = [gor EXCEPT ![g] =
                       [@ EXCEPT !.pc = "traverse", !.calls = Tail(@),
                                 !.ret = NoEntry, !.seen = @ \cup {f}]]
    /\ UNCHANGED <<rootDef, fieldsCache, fieldCache, lastCall, nextId, db, tx, queryp, mapperp>>

\* traverse has returned; the goroutine scans its rows and comes back.
GoRowsDone(g) ==
    /\ gor[g].pc = "traverse"
    /\ gor[g].calls = <<>>
    /\ gor' = [gor EXCEPT ![g] = [SharedIdle EXCEPT !.seen = gor[g].seen]]
    /\ UNCHANGED <<rootDef, fieldsCache, fieldCache, lastCall, nextId, scan, db, tx, queryp, mapperp>>

NextShared ==
    \E g \in 1..NumGoroutines :
        \/ \E n \in SharedTypes, col \in SharedColumns : GoRows(g, n, col)
        \/ GoFactoryLoad(g)
        \/ GoFactoryBuild(g)
        \/ GoFactoryStore(g)
        \/ GoFieldsLoad(g)
        \/ GoFieldsStore(g)
        \/ GoRowsDone(g)

SpecShared == InitShared /\ [][NextShared]_vars

----------------------------------------------------------------------------
(* Behaviour 3, step by step: FieldsRows.Scan(val) into a value the caller *)
(* passes, first the loop over the targeters, then sr.Rows.Scan and the    *)
(* post-processing.                                                        *)

\* The values callers pass to Scan: a new one, and ones whose relations
\* are set already.
DestValues(n) ==
    IF n = "Person"
    THEN { ZeroValue(T("Person")),
           <<1, 1, << <<1, 0, <<>>, <<>>>> >>, <<>>>>,
           <<0, 0, << <<0, 0, << <<1, 0, <<>>, <<>>>> >>, <<>>>> >>, <<>>>> }
    ELSE { ZeroValue(T("Keeper")),
           <<0, <<>>, << <<1, 1>> >> >> }

\* for i := range sr.targeters { sr.targets[i] = sr.targeters[i](val) }
\* on the value sv of struct type n.
RunTargeters(n, sv) ==
    /\ scan.phase = "rows"
    /\ scan.sr.type = n
    /\ scan' = [phase |-> "targeted", sr |-> scan.sr, scanned |-> scan.scanned,
                dest |-> sv,
                touched |-> TouchAll(sv, n, scan.sr.targeters, 1)]
    /\ UNCHANGED <<rootDef, fieldsCache, fieldCache, lastCall, gor, nextId, db, tx, queryp, mapperp>>

\* sr.Rows.Scan(sr.targets...) and the rest of Scan.
DriverScan(row, failAt) ==
    /\ scan.phase = "targeted"
    /\ Len(row) = Len(scan.sr.cols)
    /\ failAt \in DriverOutcomes(scan.sr)
    /\ scan' = RowScanned(row, RowsScan(scan.sr, scan.touched, row, failAt))
    /\ UNCHANGED <<rootDef, fieldsCache, fieldCache, lastCall, gor, nextId, db, tx, queryp, mapperp>>

NextTouch ==
    \/ \E n \in ScanTypes, cols \in ColumnLists : Rows(n, cols)
    \/ \E n \in ScanTypes : \E sv \in DestValues(n) : RunTargeters(n, sv)
    \/ \E k \in 1..MaxCols, failAt \in 0..MaxCols : \E row \in RowValues(k) :
          DriverScan(row, failAt)
    \/ RowsClose

SpecTouch == InitScan /\ [][NextTouch]_vars


----------------------------------------------------------------------------
(* Claims about scanning rows.                                              *)

RECURSIVE PointerPrefixes(_, _, _)
\* The prefixes of path (before the leaf) at which struct type n has a
\* pointer field; done is the part of the path already walked.
PointerPrefixes(n, done, path) ==
    IF Len(path) <= 1 THEN {}
    ELSE LET ft == FieldType(n, path[1])
             at == Append(done, path[1])
         IN (IF Kind(ft) = "ptr" THEN {at} ELSE {})
            \cup PointerPrefixes(deref(ft).base, at, Tail(path))

RECURSIVE NilAt(_, _, _)
\* The field at path in sv is absent: it, or a pointer on the way, is nil.
NilAt(sv, n, path) ==
    LET ft == FieldType(n, path[1])
        fv == sv[path[1] + 1]
    IN IF Kind(ft) = "ptr" /\ Len(fv) = 0 THEN TRUE
       ELSE IF Len(path) = 1 THEN FALSE
       ELSE NilAt(IF Kind(ft) = "ptr" THEN fv[1] ELSE fv, deref(ft).base, Tail(path))

RECURSIVE LeafAt(_, _, _)
\* The value of the field at path in sv, all pointers on the way non-nil.
LeafAt(sv, n, path) ==
    LET ft == FieldType(n, path[1])
        fv == sv[path[1] + 1]
    IN IF Len(path) = 1 THEN fv
       ELSE LeafAt(IF Kind(ft) = "ptr" THEN fv[1] ELSE fv, deref(ft).base, Tail(path))

\* The columns of the current result set that resolved to a field.
Resolved == {i \in DOMAIN scan.sr.targeters : scan.sr.targeters[i].kind # "discard"}
ColPath(i) == scan.sr.targeters[i].path

\* The pointer-typed struct fields the resolved columns pass through.
Relations == UNION {PointerPrefixes(scan.sr.type, <<>>, ColPath(i)) : i \in Resolved}

\* The resolved columns scanned beneath the field at path p.
Under(p) == {i \in Resolved : IsProperPrefix(p, ColPath(i))}

AllDefault(p) == \A i \in Under(p) : scan.row[i] = 0

\* C1: after a successful Scan into a new value, every pointer-typed
\* struct field F that a result column passes through is nil if and only
\* if every column scanned beneath F carried the default value, and the
\* fields beneath a non-nil F hold exactly the scanned values.
C1_ZeroValueCollapse ==
    scan.phase = "scanned" =>
        /\ \A p \in Relations : NilAt(scan.val, scan.sr.type, p) <=> AllDefault(p)
        /\ \A i \in Resolved :
             IF Len(ColPath(i)) > 1 /\ NilAt(scan.val, scan.sr.type, SubSeq(ColPath(i), 1, Len(ColPath(i)) - 1))
             THEN scan.row[i] = 0
             ELSE LeafAt(scan.val, scan.sr.type, ColPath(i)) = scan.row[i]

\* C2: after a successful Scan, a pointer field with another touched
\* pointer beneath it is nil whenever every column scanned beneath it
\* carried the default value: an ancestor is not kept alive by a
\* descendant that the targeter allocated and that stayed all-default.
C2_DeepestFirstCollapse ==
    scan.phase = "scanned" =>
        \A p, q \in Relations :
            (IsProperPrefix(p, q) /\ AllDefault(p)) => NilAt(scan.val, scan.sr.type, p)

\* C8: when the result columns include a name that resolves to no field
\* and database/sql's Scan does not fail, the row's Scan succeeds and every
\* other column's value reaches its field.
C8_UnknownColumnsDiscarded ==
    (/\ scan.phase \in {"scanned", "failed"}
     /\ scan.err # ScanFailed
     /\ \E i \in DOMAIN scan.sr.targeters : scan.sr.targeters[i].kind = "discard") =>
        /\ scan.err.kind = "none"
        /\ \A i \in Resolved : LeafAt(scan.filled, scan.sr.type, ColPath(i)) = scan.row[i]

\* The column callbacks traverse makes for result column col alone, by
\* being the descriptor's ByColumnName.
ColumnCallbacks(by, col) ==
    SelectSeq(traverseCol(by, col, <<>>).cbs, LAMBDA cb : cb.isColumn)

\* Targeter t is the one compiled from the only column callback in cbs.
AlignedWith(t, cbs) == Len(cbs) = 1 /\ t = Targeter(cbs[1])

\* C23: NewFieldsRows produces exactly one targeter per result column,
\* and targeter i is the one of the field result column i resolves to, or
\* a discard target when the column resolves to no field, whatever the
\* mix of direct, promoted, nested and unresolvable columns.  The plan is
\* compared column by column when NewFieldsRows returns it; no later step
\* changes it.
C23_TargetersAligned ==
    /\ scan.phase # "none" => Len(scan.sr.targeters) = Len(scan.sr.cols)
    /\ scan.phase = "rows" =>
          \A by \in {ByColumnName(scan.sr.type)} :
             \A i \in DOMAIN scan.sr.cols :
                AlignedWith(scan.sr.targeters[i],
                            ColumnCallbacks(by, scan.sr.cols[i]))

\* The plan of a Keeper result set whose first column resolves to no
\* field and whose second is a promoted column.
C23_Witness ==
    /\ scan.phase = "rows"
    /\ scan.sr.type = "Keeper"
    /\ scan.sr.cols = << <<"bogus">>, <<"pet", "name">> >>
    /\ scan.sr.targeters[1].kind = "discard"
    /\ scan.sr.targeters[2] = [kind |-> "deep", path |-> <<2, 1>>]

\* C21: a descriptor is immutable once published.  After a *Fields is
\* stored in fieldsCache no operation writes to it or to any of its Field
\* entries: every Field of a published descriptor is as newFields built
\* it, its cached sub-descriptor unset, so that concurrent scanners of the
\* type only read shared descriptor state.
C21_PublishedImmutable ==
    scan.phase = "shared" =>
        \A f \in StructFieldsOf :
           fieldsCache[f[1]] # NoEntry => scan.fields[f] = NilFields

\* Column col is P, an underscore and rest, P being its first k segments.
Prefix(col, k) == SubSeq(col, 1, k)
Rest(col, k) == SubSeq(col, k + 1, Len(col))

\* P is the column name of a struct-typed field of descriptor by and rest
\* the column name of a field of that struct's descriptor.
NamesNested(by, P, rest) ==
    /\ P \in DOMAIN by
    /\ HasFields(by[P])
    /\ rest \in DOMAIN ByColumnName(by[P].DirectType.base)

\* C22: column resolution is structural.  A result column of the form
\* P_rest, P being the column name of a struct-typed field of the
\* descriptor (underscores in P allowed) and rest a column of that field's
\* own descriptor, resolves to the path through that field: the targeter
\* compiled for it follows the field's index and then the nested field's.
C22_StructuralResolution ==
    scan.phase # "none" =>
        \A by \in {ByColumnName(scan.sr.type)} :
           \A i \in DOMAIN scan.sr.cols :
              \A k \in 1..(Len(scan.sr.cols[i]) - 1) :
                 NamesNested(by, Prefix(scan.sr.cols[i], k), Rest(scan.sr.cols[i], k)) =>
                    scan.sr.targeters[i] =
                       [kind |-> "deep",
                        path |-> by[Prefix(scan.sr.cols[i], k)].Index \o
                                 ByColumnName(by[Prefix(scan.sr.cols[i], k)].DirectType.base)
                                    [Rest(scan.sr.cols[i], k)].Index]

\* C25: zeroNilFields holds, exactly once each, the path of every pointer
\* container a compiled targeter can allocate, the pointer containers on
\* the index path of promoted fields included, and nothing else, ordered
\* by non-increasing path length.
C25_CollapseSetComplete ==
    scan.phase # "none" =>
        /\ SeqToSet(scan.sr.zeroNilFields) = Relations
        /\ \A i, j \in DOMAIN scan.sr.zeroNilFields :
              /\ i # j => scan.sr.zeroNilFields[i] # scan.sr.zeroNilFields[j]
              /\ i < j => Len(scan.sr.zeroNilFields[i]) >= Len(scan.sr.zeroNilFields[j])

RECURSIVE Kept(_, _, _)
\* Value new of type t holds everything value old held: the same scalars,
\* and a pointer that was set is still set, to a value that kept its own.
Kept(new, old, t) ==
    IF Kind(t) = "ptr"
    THEN Len(old) = 0 \/ (Len(new) = 1 /\ Kept(new[1], old[1], deref(t)))
    ELSE IF Kind(t) = "struct"
    THEN \A i \in 1..Len(StructDef(t.base)) :
            Kept(new[i], old[i], StructDef(t.base)[i].Type)
    ELSE new = old

\* C24: for every resolved column whose index path is longer than one,
\* once the targeters have run and before the driver's Scan is called every
\* pointer container on the path is non-nil, a container that was non-nil
\* already is kept with what it held, and the address handed to the
\* driver is the leaf's: the value the driver writes arrives at the
\* column's field.
C24_OnDemandAllocation ==
    /\ scan.phase = "targeted" =>
          /\ Kept(scan.touched, scan.dest, T(scan.sr.type))
          /\ \A i \in Resolved :
                \A p \in PointerPrefixes(scan.sr.type, <<>>, ColPath(i)) :
                   ~NilAt(scan.touched, scan.sr.type, p)
    /\ (scan.phase \in {"scanned", "failed"} /\ scan.err # ScanFailed) =>
          \A i \in Resolved :
             Len(ColPath(i)) > 1 =>
                LeafAt(scan.filled, scan.sr.type, ColPath(i)) = scan.row[i]

\* The targeters of child_child_id have run on a Person whose Child was
\* set: Child is kept and Child.Child is allocated.
C24_Witness ==
    /\ scan.phase = "targeted"
    /\ scan.sr.type = "Person"
    /\ scan.sr.cols = << <<"child", "child", "id">> >>
    /\ scan.dest = <<1, 1, << <<1, 0, <<>>, <<>>>> >>, <<>>>>
    /\ scan.touched =
          <<1, 1, << <<1, 0, << <<0, 0, <<>>, <<>>>> >>, <<>>>> >>, <<>>>>


----------------------------------------------------------------------------
(* The older engine's row scanner: StructFields.Scanner and fieldTargeter. *)

\* "unknown column %s"
UnknownColumnErr(col) ==
    [kind |-> "unknown column", names |-> {col}, field |-> EmptyStr, wrap |-> <<>>]

\* Field.Fields() of the older engine: nil unless the field is a struct
\* whose StructFieldsFactory succeeds.
HasStructFields(field) ==
    /\ Kind(field.DirectType) = "struct"
    /\ newStructFieldsTop(field.DirectType.base).err = NoErr

\* The targeter of a column of the struct itself.
DirectTargeter(field) == [err |-> NoErr, kind |-> "direct", path |-> <<field.Index>>]

\* The targeter of a nested column: field's index, then the sub targeter's.
DeepTargeter(field, subT) ==
    [err |-> NoErr, kind |-> "deep", path |-> <<field.Index>> \o subT.path]

RECURSIVE lenientTargeter(_, _)

lenientNested(field, subT) ==
    IF subT.kind = "discard" THEN subT ELSE DeepTargeter(field, subT)

lenientCol(by, col) ==
    IF col \in DOMAIN by THEN DirectTargeter(by[col])
    ELSE IF CutRoot(col) \notin DOMAIN by \/ ~HasStructFields(by[CutRoot(col)])
    THEN [err |-> NoErr, kind |-> "discard", path |-> <<>>]
    ELSE lenientNested(by[CutRoot(col)],
                       lenientTargeter(by[CutRoot(col)].DirectType.base, CutRest(col)))

\* What fieldTargeter is not: a column that resolves to no field gets a
\* targeter that discards the value.
lenientTargeter(n, col) == lenientCol(newStructFieldsTop(n).byCol, col)

RECURSIVE fieldTargeter(_, _)

\* The sub targeter's error is returned as it is.
fieldTargeterNested(field, subT) ==
    IF subT.err # NoErr THEN subT ELSE DeepTargeter(field, subT)

\* fieldTargeter on the descriptor whose ByColumnName is by.
fieldTargeterCol(by, col) ==
    IF col \in DOMAIN by THEN DirectTargeter(by[col])
    ELSE IF CutRoot(col) \notin DOMAIN by \/ ~HasStructFields(by[CutRoot(col)])
    THEN [err |-> UnknownColumnErr(col), kind |-> "none", path |-> <<>>]
    ELSE fieldTargeterNested(by[CutRoot(col)],
                             fieldTargeter(by[CutRoot(col)].DirectType.base, CutRest(col)))

\* StructFields.fieldTargeter(col) on the descriptor of struct type n:
\* [err, kind, path].  A column of the struct itself gets a direct
\* targeter; a nested one a targeter that follows path, touching every
\* field before the last.
fieldTargeter(n, col) == fieldTargeterCol(newStructFieldsTop(n).byCol, col)

NoScanner == [ok |-> FALSE, type |-> "", cols |-> <<>>, targeters |-> <<>>]

\* "failed to get targeter for column %s: %w"
TargeterErr(col, err) == [err EXCEPT !.field = col]

\* The first column whose targeter could not be compiled.
FirstFailed(ts) ==
    CHOOSE i \in DOMAIN ts : ts[i].err # NoErr /\ \A j \in 1..(i - 1) : ts[j].err = NoErr

\* The scanner compiled from the targeters ts, one per column.
Compiled(n, cols, ts) ==
    IF \E i \in DOMAIN ts : ts[i].err # NoErr
    THEN [err |-> TargeterErr(cols[FirstFailed(ts)], ts[FirstFailed(ts)].err),
          scanner |-> NoScanner]
    ELSE [err |-> NoErr,
          scanner |-> [ok |-> TRUE, type |-> n, cols |-> cols,
                       targeters |-> [i \in DOMAIN cols |->
                           [kind |-> ts[i].kind, path |-> ts[i].path]]]]

\* StructFields.Scanner(rows) for struct type n and result columns cols:
\* [err, scanner]; the first column without a targeter ends the compilation
\* and no row function is returned.
Scanner(n, cols) == Compiled(n, cols, [i \in DOMAIN cols |-> fieldTargeter(n, cols[i])])

RECURSIVE FieldsFetched(_, _, _)
\* fieldCache and the next allocation, st = [cache, id], after
\* fieldTargeter(col) on the descriptor of struct type n: field.Fields()
\* of every struct field the column passes through has called
\* StructFieldsFactory(f.DirectType), which stores a type not yet cached.
FieldsFetched(n, col, st) ==
    LET by == newStructFieldsTop(n).byCol IN
    IF col \in DOMAIN by \/ CutRoot(col) \notin DOMAIN by THEN st
    ELSE IF Kind(by[CutRoot(col)].DirectType) # "struct" THEN st
    ELSE LET t == by[CutRoot(col)].DirectType.base
             r == StructFieldsFactory(t, st.cache, st.id)
         IN IF r.err # NoErr THEN st
            ELSE FieldsFetched(t, CutRest(col),
                    [cache |-> r.cache, id |-> IdAfter(st.cache, r.cache, st.id)])

RECURSIVE ScannerFetched(_, _, _, _)
\* The same after the loop of Scanner over cols from column i on: the
\* loop ends with the first column that has no targeter.
ScannerFetched(n, cols, i, st) ==
    IF i > Len(cols) THEN st
    ELSE IF fieldTargeter(n, cols[i]).err # NoErr THEN FieldsFetched(n, cols[i], st)
    ELSE ScannerFetched(n, cols, i + 1, FieldsFetched(n, cols[i], st))

RECURSIVE NilOutRoots(_, _, _, _)
\* The older post-processing: for each column, the top-level pointer field
\* named by the column's root is set to nil if it points at a zero struct
\* (its sub-fields have been fetched exactly when the column was nested).
NilOutRoots(sv, n, targeters, i) ==
    IF i > Len(targeters) THEN sv
    ELSE LET p    == targeters[i].path
             next == IF targeters[i].kind = "deep" /\ Kind(FieldType(n, p[1])) = "ptr"
                     THEN NilOut(sv, n, <<p[1]>>).val
                     ELSE sv
         IN NilOutRoots(next, n, targeters, i + 1)

\* The targets are set (touched): rows.Scan, then the nil-out of the roots.
scanTouched(sc, touched, row, driverOk) ==
    IF ~driverOk THEN [err |-> ScanFailed, val |-> NoValue]
    ELSE [err |-> NoErrSeen,
          val |-> NilOutRoots(StoreAll(touched, sc.type, sc.targeters, row, 1),
                              sc.type, sc.targeters, 1)]

\* The row function Scanner returns, on a new value: [err, val].  The
\* nested fields of the types scanned here are pointers, which the
\* targeters set when they are zero.
scanRow(sc, row, driverOk) ==
    scanTouched(sc, TouchAll(ZeroValue(T(sc.type)), sc.type, sc.targeters, 1),
                row, driverOk)

----------------------------------------------------------------------------
(* Behaviour 4: the older DB.Select (strict about unknown columns).        *)

\* The destinations handed to the older Select.
StrictDests ==
    { PtrTo(SliceOf(T("Person"))), PtrTo(SliceOf(T("Pet"))), PtrTo(SliceOf(T("parent"))),
      PtrTo(SliceOf(PtrTo(T("Person")))), SliceOf(T("Person")), PtrTo(T("Person")) }

ShapeErr(what) == [kind |-> what, name |-> EmptyStr, field |-> EmptyStr, wrap |-> <<>>]

\* A call in progress: the destination's type, the rows appended to it,
\* the Query calls made, the result columns, the compiled scanner, the
\* rows scanned and the error returned.
DBCall(op, destType, phase, err) ==
    [phase |-> phase, op |-> op, destType |-> destType, dest |-> <<>>,
     before |-> <<>>, queries |-> 0, cols |-> <<>>, sr |-> NoScanner,
     scanned |-> 0, err |-> err]

InitStrict ==
    /\ rootDef = NoRoot
    /\ fieldsCache = EmptyCache
    /\ fieldCache = EmptyCache
    /\ lastCall = NoCall
    /\ gor = IdleGor
    /\ nextId = 1
    /\ scan = NoScan
    /\ db = NoDB
    /\ tx = NoTx
    /\ queryp = NoQuery
    /\ mapperp = NoMapper

\* The older Select up to db.Query: the checks on dest's type and
\* StructFieldsFactory(elemType).
StrictSelect(destType) ==
    /\ db.phase = "none"
    /\ IF Kind(destType) # "ptr"
       THEN /\ db' = DBCall("Select", destType, "failed", ShapeErr("wanted a pointer"))
            /\ UNCHANGED <<fieldCache, nextId>>
       ELSE IF Kind(Elem(destType)) # "slice"
       THEN /\ db' = DBCall("Select", destType, "failed", ShapeErr("wanted a slice"))
            /\ UNCHANGED <<fieldCache, nextId>>
       ELSE IF Kind(Elem(Elem(destType))) = "ptr"
       THEN /\ db' = DBCall("Select", destType, "failed",
                            ShapeErr("given slice of pointers, wanted a slice of structs"))
            /\ UNCHANGED <<fieldCache, nextId>>
       ELSE \E r \in {StructFieldsFactory(Elem(Elem(destType)).base, fieldCache, nextId)} :
            /\ fieldCache' = r.cache
            /\ nextId' = IdAfter(fieldCache, r.cache, nextId)
            /\ \E e \in ErrorsSeen(r.err) :
                 db' = DBCall("Select", destType,
                              IF r.err = NoErr THEN "query" ELSE "failed", e)
    /\ UNCHANGED <<rootDef, fieldsCache, lastCall, gor, scan, tx, queryp, mapperp>>

\* db.Query fails: Select returns the error.
QueryFails ==
    /\ db.phase = "query"
    /\ db' = [db EXCEPT !.phase = "failed", !.queries = @ + 1,
                        !.err = ShapeErr("query failed")]
    /\ UNCHANGED <<rootDef, fieldsCache, fieldCache, lastCall, gor, nextId, scan, tx, queryp, mapperp>>

\* The call after rv.Scanner(rows) returned r and the caller saw error e.
ScannerReturned(cols, r, e) ==
    [db EXCEPT !.phase = IF r.err = NoErr THEN "rows" ELSE "failed",
               !.queries = @ + 1, !.cols = cols, !.sr = r.scanner, !.err = e]

\* db.Query returns rows with columns cols; then rv.Scanner(rows).
StrictQuery(cols) ==
    /\ db.phase = "query"
    /\ \E r \in {Scanner(Elem(Elem(db.destType)).base, cols)} :
          \E e \in ErrorsSeen(r.err) : db' = ScannerReturned(cols, r, e)
    /\ \E st \in {ScannerFetched(Elem(Elem(db.destType)).base, cols, 1,
                                 [cache |-> fieldCache, id |-> nextId])} :
          /\ fieldCache' = st.cache
          /\ nextId' = st.id
    /\ UNCHANGED <<rootDef, fieldsCache, lastCall, gor, scan, tx, queryp, mapperp>>

\* fmt.Errorf("failed to scan row: %w", err): the Select loops wrap what
\* Scan returned once more.
ScanRowErr(err) == [err EXCEPT !.wrap = <<"failed to scan row">> \o @]

\* The call after scan() returned r: the value is appended, or the error
\* returned, wrapped by the loop.
Appended(r) ==
    IF r.err.kind = "none"
    THEN [db EXCEPT !.scanned = @ + 1, !.dest = Append(@, r.val)]
    ELSE [db EXCEPT !.scanned = @ + 1, !.phase = "failed",
                    !.err = ScanRowErr(r.err)]

\* rows.Next() is true: val, err := scan(); dest = append(dest, val).
StrictRow(row, driverOk) ==
    /\ db.phase = "rows"
    /\ db.scanned < MaxRows
    /\ Len(row) = Len(db.cols)
    /\ db' = Appended(scanRow(db.sr, row, driverOk))
    /\ UNCHANGED <<rootDef, fieldsCache, fieldCache, lastCall, gor, nextId, scan, tx, queryp, mapperp>>

\* database/sql's QueryRow convention: a Get that finds no row fails.
ErrNoRows(d) ==
    IF d.op = "Get" /\ d.scanned = 0
    THEN [d EXCEPT !.phase = "failed", !.err = ShapeErr("no rows in result set")]
    ELSE [d EXCEPT !.phase = "done"]

\* rows.Next() returned false: the call returns rows.Err(), nil when the
\* result set simply ends, and dest keeps what it holds.
Exhausted(d) == [d EXCEPT !.phase = "done"]

\* rows.Next() is false: Select, or a Get that found no row, returns
\* rows.Err().
RowsEnd ==
    /\ db.phase = "rows"
    /\ db' = Exhausted(db)
    /\ UNCHANGED <<rootDef, fieldsCache, fieldCache, lastCall, gor, nextId, scan, tx, queryp, mapperp>>

\* The caller moves on to its next call.
Return ==
    /\ db.phase \in {"done", "failed"}
    /\ db' = NoDB
    /\ UNCHANGED <<rootDef, fieldsCache, fieldCache, lastCall, gor, nextId, scan, tx, queryp, mapperp>>

NextStrict ==
    \/ \E destType \in StrictDests : StrictSelect(destType)
    \/ QueryFails
    \/ \E cols \in ColumnLists : StrictQuery(cols)
    \/ \E k \in 1..MaxCols, driverOk \in BOOLEAN : \E row \in RowValues(k) :
          StrictRow(row, driverOk)
    \/ RowsEnd
    \/ Return

SpecStrict == InitStrict /\ [][NextStrict]_vars

RECURSIVE Resolves(_, _)
\* Column col names a field of struct type n, or a field beneath one of
\* its struct fields, going by the declarations.
Resolves(n, col) ==
    \E i \in DOMAIN StructDef(n) :
        LET sf == StructDef(n)[i] IN
        /\ ~Ignored(sf)
        /\ \/ ColumnOf(sf) = col
           \/ /\ Kind(DirectTypeOf(sf)) = "struct"
              /\ Len(col) > Len(ColumnOf(sf))
              /\ SubSeq(col, 1, Len(ColumnOf(sf))) = ColumnOf(sf)
              /\ Resolves(DirectTypeOf(sf).base,
                          SubSeq(col, Len(ColumnOf(sf)) + 1, Len(col)))

\* C9: in the older Select, once the query has returned its columns, if
\* one of them resolves to no field then Scanner has failed with 'unknown
\* column', it has returned no row function, no row has been scanned and
\* nothing has been appended to dest.
C9_StrictUnknownColumn ==
    (/\ db.phase \in {"rows", "done", "failed"}
     /\ db.cols # <<>>
     /\ \E i \in DOMAIN db.cols : ~Resolves(Elem(Elem(db.destType)).base, db.cols[i])) =>
        /\ db.phase = "failed"
        /\ db.err.kind = "unknown column"
        /\ ~db.sr.ok
        /\ db.scanned = 0
        /\ db.dest = <<>>

\* The older Select has issued its query, the result has the column
\* child_bogus and Scanner has refused it.
C9_Witness ==
    /\ db.phase = "failed"
    /\ db.queries = 1
    /\ \E i \in DOMAIN db.cols : db.cols[i] = <<"child", "bogus">>
    /\ db.err.kind = "unknown column"
    /\ db.err.name = <<"bogus">>
    /\ db.err.field = <<"child", "bogus">>
    /\ db.scanned = 0 /\ db.dest = <<>>


----------------------------------------------------------------------------
(* Behaviour 5: DB.Get and DB.Select.                                       *)

\* The destinations handed to Get and Select: dest's dynamic type.
DBDests ==
    { PtrTo(SliceOf(T("Person"))), PtrTo(SliceOf(T("parent"))),
      PtrTo(SliceOf(PtrTo(T("Person")))), PtrTo(SliceOf(T("int"))),
      SliceOf(T("Person")), PtrTo(T("Person")), PtrTo(PtrTo(T("Person"))),
      PtrTo(T("int")), T("Person") }

\* What dest refers to before the call: an empty slice for Select, the
\* zero value of the pointed-to type for Get.
InitialDest(op, destType) ==
    IF op = "Select" THEN <<>>
    ELSE IF Kind(destType) = "ptr" THEN ZeroValue(Elem(destType))
    ELSE ZeroValue(destType)

InitDB ==
    /\ rootDef = NoRoot
    /\ fieldsCache = EmptyCache
    /\ fieldCache = EmptyCache
    /\ lastCall = NoCall
    /\ gor = IdleGor
    /\ nextId = 1
    /\ scan = NoScan
    /\ db = NoDB
    /\ tx = NoTx
    /\ queryp = NoQuery
    /\ mapperp = NoMapper

\* The call has failed before db.Query, or is ready to issue it.
BeforeQuery(op, destType, err) ==
    [DBCall(op, destType, IF err.kind = "none" THEN "query" ELSE "failed", err)
       EXCEPT !.dest = InitialDest(op, destType),
              !.before = InitialDest(op, destType)]

\* DB.Select up to db.Query: the checks on dest's type and
\* FieldsFactory(elemType).
Select(destType) ==
    /\ db.phase = "none"
    /\ IF Kind(destType) # "ptr"
       THEN /\ db' = BeforeQuery("Select", destType, ShapeErr("wanted a pointer"))
            /\ UNCHANGED <<fieldsCache, nextId>>
       ELSE IF Kind(Elem(destType)) # "slice"
       THEN /\ db' = BeforeQuery("Select", destType, ShapeErr("wanted a slice"))
            /\ UNCHANGED <<fieldsCache, nextId>>
       ELSE LET r == FieldsFactory(Elem(Elem(destType)), fieldsCache, nextId) IN
            /\ fieldsCache' = r.cache
            /\ nextId' = IdAfter(fieldsCache, r.cache, nextId)
            /\ \E e \in ErrorsSeen(r.err) : db' = BeforeQuery("Select", destType, e)
    /\ UNCHANGED <<rootDef, fieldCache, lastCall, gor, scan, tx, queryp, mapperp>>

\* A Person the caller filled in before the call: ID 1, Name 1, a Child
\* (ID 1) and no Pet.
FilledPerson == <<1, 1, << <<1, 0, <<>>, <<>>>> >>, <<>>>>

\* What dest may hold when Get is called: the zero value, or for a *Person
\* also a struct with data in it.
GetDestValues(destType) ==
    {InitialDest("Get", destType)} \cup
    (IF destType = PtrTo(T("Person")) THEN {FilledPerson} ELSE {})

\* The Get call before db.Query, dest holding the value before.
GetBeforeQuery(destType, before, err) ==
    [BeforeQuery("Get", destType, err) EXCEPT !.dest = before, !.before = before]

\* DB.Get up to db.Query: dest must be a pointer, FieldsFactory(elemType).
Get(destType, before) ==
    /\ db.phase = "none"
    /\ IF Kind(destType) # "ptr"
       THEN /\ db' = GetBeforeQuery(destType, before, ShapeErr("wanted a pointer"))
            /\ UNCHANGED <<fieldsCache, nextId>>
       ELSE LET r == FieldsFactory(Elem(destType), fieldsCache, nextId) IN
            /\ fieldsCache' = r.cache
            /\ nextId' = IdAfter(fieldsCache, r.cache, nextId)
            /\ \E e \in ErrorsSeen(r.err) :
                  db' = GetBeforeQuery(destType, before, e)
    /\ UNCHANGED <<rootDef, fieldCache, lastCall, gor, scan, tx, queryp, mapperp>>

\* The struct type the rows are scanned into: the slice's element for
\* DB.Select, what dest points at for DB.Get, E for a Repository[E].
RowType == IF db.op = "Select" THEN Elem(Elem(db.destType)).base
           ELSE IF db.op = "Get" THEN Elem(db.destType).base
           ELSE db.destType.base

\* db.Query returns rows with columns cols; then destFields.Rows(rows).
Query(cols) ==
    /\ db.phase = "query"
    /\ db.op # "Repository.Select (scanner)"
    /\ LET sr == NewFieldsRows(RowType, cols)
           st == StoreTouched(fieldsCache, nextId, sr.touched)
       IN /\ db' = [db EXCEPT !.phase = "rows", !.queries = @ + 1,
                              !.cols = cols, !.sr = sr]
          /\ fieldsCache' = st.cache
          /\ nextId' = st.id
    /\ UNCHANGED <<rootDef, fieldCache, lastCall, gor, scan, tx, queryp, mapperp>>

\* A loop body that appends what the failed Scan left behind before it
\* returns the error.
SelectAppendsFailed(d, r) ==
    IF r.err.kind = "none"
    THEN [d EXCEPT !.scanned = @ + 1, !.dest = Append(@, r.val)]
    ELSE [d EXCEPT !.scanned = @ + 1, !.phase = "failed",
                   !.err = ScanRowErr(r.err), !.dest = Append(@, r.filled)]

\* Select's loop body once fRows.Scan() returned r: return the error, or
\* dest = append(dest, val).
SelectScanned(d, r) ==
    IF r.err.kind = "none"
    THEN [d EXCEPT !.scanned = @ + 1, !.dest = Append(@, r.val)]
    ELSE [d EXCEPT !.scanned = @ + 1, !.phase = "failed",
                   !.err = ScanRowErr(r.err)]

\* Select's loop body: val, err := fRows.Scan(); dest = append(dest, val).
SelectRow(row, failAt) ==
    /\ db.phase = "rows" /\ db.op = "Select"
    /\ db.scanned < MaxRows
    /\ Len(row) = Len(db.cols)
    /\ failAt \in DriverOutcomes(db.sr)
    /\ db' = SelectScanned(db, Scan(db.sr, ZeroValue(T(RowType)), row, failAt))
    /\ UNCHANGED <<rootDef, fieldsCache, fieldCache, lastCall, gor, nextId, scan, tx, queryp, mapperp>>

\* Get's single row: fRows.Scan(destV) fills the struct dest points at,
\* then Get returns; what a failed Scan has written stays in the struct.
GetRow(row, failAt) ==
    /\ db.phase = "rows" /\ db.op = "Get"
    /\ Len(row) = Len(db.cols)
    /\ failAt \in DriverOutcomes(db.sr)
    /\ LET r == Scan(db.sr, db.dest, row, failAt) IN
       db' = IF r.err.kind = "none"
             THEN [db EXCEPT !.scanned = 1, !.phase = "done", !.dest = r.val]
             ELSE [db EXCEPT !.scanned = 1, !.phase = "failed", !.dest = r.filled,
                             !.err = r.err]
    /\ UNCHANGED <<rootDef, fieldsCache, fieldCache, lastCall, gor, nextId, scan, tx, queryp, mapperp>>

NextDB ==
    \/ \E destType \in DBDests : Select(destType)
    \/ \E destType \in DBDests : \E before \in GetDestValues(destType) :
          Get(destType, before)
    \/ QueryFails
    \/ \E cols \in ColumnLists : Query(cols)
    \/ \E k \in 1..MaxCols, failAt \in 0..MaxCols : \E row \in RowValues(k) :
          SelectRow(row, failAt)
    \/ \E k \in 1..MaxCols, failAt \in 0..MaxCols : \E row \in RowValues(k) :
          GetRow(row, failAt)
    \/ RowsEnd
    \/ Return

SpecDB == InitDB /\ [][NextDB]_vars

\* dest has the shape the operation wants: a pointer to a slice of structs
\* for Select, a pointer to a struct for Get.
GoodShape(op, destType) ==
    /\ Kind(destType) = "ptr"
    /\ IF op = "Select"
       THEN Kind(Elem(destType)) = "slice" /\ Kind(Elem(Elem(destType))) = "struct"
       ELSE Kind(Elem(destType)) = "struct"

\* dest is one of the pointer cases: *[]*T for Select, **T for Get.
PointerCase(op, destType) ==
    /\ Kind(destType) = "ptr"
    /\ IF op = "Select"
       THEN Kind(Elem(destType)) = "slice" /\ Kind(Elem(Elem(destType))) = "ptr"
       ELSE Kind(Elem(destType)) = "ptr"

\* C10: a Select or Get whose dest has the wrong shape has failed without
\* any call of Query and with dest as it was; in the pointer cases the
\* error is 'given ptr, expected struct'.
C10_ShapeCheckedBeforeQuery ==
    (db.phase # "none" /\ ~GoodShape(db.op, db.destType)) =>
        /\ db.phase = "failed"
        /\ db.queries = 0
        /\ db.dest = InitialDest(db.op, db.destType)
        /\ PointerCase(db.op, db.destType) =>
             db.err.kind = "expected struct" /\ db.err.name = S("ptr")

\* Select was handed a *[]*Person and has returned 'given ptr, expected
\* struct' with no query issued.
C10_Witness ==
    /\ db.phase = "failed"
    /\ db.op = "Select"
    /\ db.destType = PtrTo(SliceOf(PtrTo(T("Person"))))
    /\ db.err.kind = "expected struct" /\ db.err.name = S("ptr")
    /\ db.queries = 0
    /\ db.dest = <<>>

\* C15: a Get whose query returned no row has returned nil and dest holds
\* exactly what it held before the call: no field written, no nested
\* pointer allocated or cleared.
C15_GetNoRowsFrame ==
    (db.phase \in {"done", "failed"} /\ db.op = "Get" /\ db.queries = 1
       /\ db.sr # NoScanner /\ db.scanned = 0) =>
        /\ db.phase = "done"
        /\ db.err.kind = "none"
        /\ db.dest = db.before

\* Get into a filled-in Person has returned after a query selecting
\* child_pet_id and name that produced no row.
C15_Witness ==
    /\ db.phase = "done"
    /\ db.op = "Get"
    /\ db.queries = 1
    /\ db.scanned = 0
    /\ db.cols = << <<"child", "pet", "id">>, <<"name">> >>
    /\ db.before = FilledPerson
    /\ db.dest = FilledPerson
    /\ db.err.kind = "none"

\* Repository.Select, in its two forms: the one that asks FieldsFactory for
\* r.t before the query and reads the rows with fields.Rows, and the one
\* that queries first and reads the rows with NewReflectScanner[E].  db.dest
\* is the entities slice, and after a return what the caller received.

\* The entity types E of the repositories: r.t = reflect.TypeOf(entity).
RepositoryTypes == {T("Pet"), T("parent"), PtrTo(T("Person"))}

\* The operations that read every row of the result.
SelectOps == {"Select", "Repository.Select", "Repository.Select (scanner)"}

\* Repository.Select up to r.DB.Query: var entities []E, then
\* FieldsFactory(r.t); its error is returned with nil entities.
RepositorySelect(t) ==
    /\ db.phase = "none"
    /\ LET r == FieldsFactory(t, fieldsCache, nextId) IN
       /\ fieldsCache' = r.cache
       /\ nextId' = IdAfter(fieldsCache, r.cache, nextId)
       /\ \E e \in ErrorsSeen(r.err) :
             db' = DBCall("Repository.Select", t,
                          IF e.kind = "none" THEN "query" ELSE "failed", e)
    /\ UNCHANGED <<rootDef, fieldCache, lastCall, gor, scan, tx, queryp, mapperp>>

\* The scanner form of Repository.Select up to r.DB.Query: var entities []E
\* and nothing else.
RepositorySelectScanner(t) ==
    /\ db.phase = "none"
    /\ db' = DBCall("Repository.Select (scanner)", t, "query", NoErrSeen)
    /\ UNCHANGED <<rootDef, fieldsCache, fieldCache, lastCall, gor, nextId, scan, tx, queryp, mapperp>>

\* r.DB.Query returns rows with columns cols; NewReflectScanner[E](rows):
\* FieldsFactory(reflect.TypeOf(e)), whose error ends the call with nil
\* entities, then destFields.Rows(rows).
NewReflectScanner(cols) ==
    /\ db.phase = "query"
    /\ db.op = "Repository.Select (scanner)"
    /\ LET r == FieldsFactory(db.destType, fieldsCache, nextId) IN
       IF r.err # NoErr
       THEN /\ fieldsCache' = r.cache
            /\ nextId' = IdAfter(fieldsCache, r.cache, nextId)
            /\ \E e \in ErrorsSeen(r.err) :
                  db' = [db EXCEPT !.phase = "failed", !.queries = @ + 1,
                                   !.cols = cols, !.err = e]
       ELSE LET sr == NewFieldsRows(RowType, cols)
                st == StoreTouched(r.cache, IdAfter(fieldsCache, r.cache, nextId),
                                   sr.touched)
            IN /\ db' = [db EXCEPT !.phase = "rows", !.queries = @ + 1,
                                   !.cols = cols, !.sr = sr]
               /\ fieldsCache' = st.cache
               /\ nextId' = st.id
    /\ UNCHANGED <<rootDef, fieldCache, lastCall, gor, scan, tx, queryp, mapperp>>

\* Repository.Select's loop body once the scan returned r: return nil and
\* the wrapped error, or entities = append(entities, val).
RepositoryScanned(d, r) ==
    IF r.err.kind = "none"
    THEN [d EXCEPT !.scanned = @ + 1, !.dest = Append(@, r.val)]
    ELSE [d EXCEPT !.scanned = @ + 1, !.phase = "failed",
                   !.err = ScanRowErr(r.err), !.dest = <<>>]

\* Repository.Select's loop body: val, err := fRows.Scan(), or
\* scanner.Scan(), which scans into a new zero E through
\* ReflectDestScanner.Scan and returns the error of fRows.Scan as it is.
RepositoryRow(row, failAt) ==
    /\ db.phase = "rows"
    /\ db.op \in {"Repository.Select", "Repository.Select (scanner)"}
    /\ db.scanned < MaxRows
    /\ Len(row) = Len(db.cols)
    /\ failAt \in DriverOutcomes(db.sr)
    /\ db' = RepositoryScanned(db, Scan(db.sr, ZeroValue(T(RowType)), row, failAt))
    /\ UNCHANGED <<rootDef, fieldsCache, fieldCache, lastCall, gor, nextId, scan, tx, queryp, mapperp>>

\* DB.Select and Repository.Select side by side.
NextSelect ==
    \/ \E destType \in DBDests : Select(destType)
    \/ \E t \in RepositoryTypes : RepositorySelect(t)
    \/ \E t \in RepositoryTypes : RepositorySelectScanner(t)
    \/ QueryFails
    \/ \E cols \in ColumnLists : Query(cols)
    \/ \E cols \in ColumnLists : NewReflectScanner(cols)
    \/ \E k \in 1..MaxCols, failAt \in 0..MaxCols : \E row \in RowValues(k) :
          SelectRow(row, failAt)
    \/ \E k \in 1..MaxCols, failAt \in 0..MaxCols : \E row \in RowValues(k) :
          RepositoryRow(row, failAt)
    \/ RowsEnd
    \/ Return

\* The repository has been validated: Repository.Validate has put the
\* fields of Pet in the cache.
InitSelect ==
    /\ rootDef = NoRoot
    /\ fieldsCache = FieldsFactory(T("Pet"), EmptyCache, 1).cache
    /\ fieldCache = EmptyCache
    /\ lastCall = NoCall
    /\ gor = IdleGor
    /\ nextId = 2
    /\ scan = NoScan
    /\ db = NoDB
    /\ tx = NoTx
    /\ queryp = NoQuery
    /\ mapperp = NoMapper

SpecSelect == InitSelect /\ [][NextSelect]_vars

\* FieldsRows.Scan with a failing driver returns the wrapped error and
\* reflect.Value{}, whatever the row and the column that failed.
ScanGivesNoValue(sr, n, k) ==
    \A row \in RowValues(k), failAt \in DriverOutcomes(sr) \ {NoFailure} :
       \A r \in {Scan(sr, ZeroValue(T(n)), row, failAt)} :
          r.err = ScanFailed /\ r.val = NoValue

\* A Scan the driver fails gives no value, with the scanner DB.Select or
\* Repository.Select has when it starts to read rows.
FailedScanGivesNoValue ==
    (db.phase = "rows" /\ db.op \in SelectOps /\ db.scanned = 0) =>
        ScanGivesNoValue(db.sr, RowType, Len(db.cols))

\* A step of DB.Select or Repository.Select around a row whose scan the
\* driver failed: the call ends on that row with the error, DB.Select
\* leaves dest as it was and Repository.Select returns nil entities; the
\* loop keeps the scanner it started with.
SelectFailureStep ==
    /\ (db.phase = "rows" /\ db'.phase = "failed" /\ db.op \in SelectOps
          /\ db'.err.kind = ScanFailed.kind) =>
           /\ db'.err = ScanRowErr(ScanFailed)
           /\ db'.scanned = db.scanned + 1
           /\ db.op = "Select" => db'.dest = db.dest
           /\ db.op # "Select" => db'.dest = <<>>
    /\ (db.phase = "rows" /\ db'.phase = "rows") =>
           /\ db'.sr = db.sr
           /\ db'.cols = db.cols
           /\ db'.scanned = db.scanned + 1
           /\ Len(db'.dest) = Len(db.dest) + 1
    /\ db.phase = "failed" => db' = NoDB

\* C26: a scan failure aborts the iteration, in DB.Select and in both
\* forms of Repository.Select.  When the driver's Scan fails on row k,
\* FieldsRows.Scan returns the wrapped error and no value, and the step of
\* the loop on that row ends the call with that error: DB.Select leaves
\* dest as it was after row k-1 and Repository.Select returns nil, so row
\* k is not appended; the only step of a failed call is its return, so row
\* k is not retried and row k+1 is not read.
C26_ScanFailureAborts == []FailedScanGivesNoValue /\ [][SelectFailureStep]_vars

\* Repository.Select over Pet, in the scanner form, has failed on its
\* second row: one entity was appended and nil is returned.
C26_Witness ==
    /\ db.phase = "failed"
    /\ db.op = "Repository.Select (scanner)"
    /\ db.destType = T("Pet")
    /\ db.err = ScanRowErr(ScanFailed)
    /\ db.scanned = 2
    /\ db.queries = 1
    /\ db.dest = <<>>


----------------------------------------------------------------------------
(* Behaviour 6: contextual transactions (DB.RunInTx, queryer, txContext).  *)
(* A context is modelled by the transaction it carries under ctxKey: the   *)
(* number of the transaction, or NilTx.  Rows are numbered as inserted.    *)

\* RunInTx calls nested in one another.
MaxDepth == 2
\* Transactions begun on the pool.
MaxTxs == 1
\* Exec / Query / QueryRow / Get / Select calls made.
MaxOps == 3

\* ctx.Value(ctxKey) == nil
NilTx == 0
\* db.DB, the connection pool, as a Queryer (transactions are 1, 2, ...).
Pool == -1

\* txContext(ctx): the context's current transaction, if any.
txContext(ctx) == ctx

\* Routing that ignores the context: always the pool.
poolQueryer(ctx) == Pool

\* queryer(ctx): the transaction of the context, or the pool.
queryer(ctx) == IF txContext(ctx) # NilTx THEN txContext(ctx) ELSE Pool

\* The DB methods that run one statement.
ReadMethods == {"Query", "QueryRow", "Get", "Select"}

NoLast == [method |-> "none", ctx |-> NilTx, on |-> Pool, begun |-> FALSE,
           err |-> "nil", seen |-> {}, inCallback |-> FALSE]
NoDone == [began |-> FALSE, tx |-> NilTx, depth |-> 0, result |-> "none",
           returned |-> "none", wrote |-> {}]

\* A sql.Tx: open until its first Commit or Rollback; ender is the depth of
\* the RunInTx call whose Commit or Rollback ended it.
NewTx == [state |-> "open", writes |-> {}, ender |-> 0]

InitTx ==
    /\ rootDef = NoRoot
    /\ fieldsCache = EmptyCache
    /\ fieldCache = EmptyCache
    /\ lastCall = NoCall
    /\ gor = IdleGor
    /\ nextId = 1
    /\ scan = NoScan
    /\ db = NoDB
    /\ tx = [pool |-> {}, txs |-> <<>>, frames |-> <<>>, rows |-> 0, ops |-> 0,
             last |-> NoLast, done |-> NoDone]
    /\ queryp = NoQuery
    /\ mapperp = NoMapper

\* The contexts the running code holds: one without a transaction, and
\* the one its RunInTx callback was given.
Ctxs ==
    {NilTx} \cup (IF tx.frames # <<>> THEN {tx.frames[Len(tx.frames)].tx} ELSE {})

\* tx.Commit(): takes effect on an open transaction, sql.ErrTxDone otherwise.
Commit(txs, t, depth) ==
    IF txs[t].state = "open"
    THEN [txs EXCEPT ![t].state = "committed", ![t].ender = depth]
    ELSE txs

\* tx.Rollback(): the same, the writes being dropped.
Rollback(txs, t, depth) ==
    IF txs[t].state = "open"
    THEN [txs EXCEPT ![t].state = "rolledback", ![t].ender = depth]
    ELSE txs

\* The rows a statement sees on queryer q.
Visible(q) == IF q = Pool THEN tx.pool ELSE tx.pool \cup tx.txs[q].writes

\* The statement fails on a transaction that has ended.
TxDone(q) == q # Pool /\ tx.txs[q].state # "open"

\* The callback's frame records a row it wrote on its transaction.
Wrote(frames, q, row) ==
    IF q # Pool /\ frames # <<>> /\ frames[Len(frames)].tx = q
    THEN [frames EXCEPT ![Len(frames)].wrote = @ \cup {row}]
    ELSE frames


\* What the last DB method did.
LastCalled(method, ctx, q, begun, err, seen) ==
    [method |-> method, ctx |-> ctx, on |-> q, begun |-> begun, err |-> err,
     seen |-> seen, inCallback |-> tx.frames # <<>>]

\* ExecContext on queryer q: an INSERT of a new row.
ExecOn(ctx, q, row) ==
    IF TxDone(q)
    THEN [tx EXCEPT !.ops = @ + 1,
                    !.last = LastCalled("Exec", ctx, q, FALSE, "ErrTxDone", {})]
    ELSE [tx EXCEPT !.ops = @ + 1,
                    !.rows = row,
                    !.pool = IF q = Pool THEN @ \cup {row} ELSE @,
                    !.txs = IF q = Pool THEN @ ELSE [@ EXCEPT ![q].writes = @ \cup {row}],
                    !.frames = Wrote(@, q, row),
                    !.last = LastCalled("Exec", ctx, q, FALSE, "nil", {row})]

\* DB.Exec(ctx, ...): db.queryer(ctx).ExecContext(ctx, ...).
Exec(ctx) ==
    /\ tx.ops < MaxOps
    /\ tx' = ExecOn(ctx, queryer(ctx), tx.rows + 1)
    /\ UNCHANGED <<reflectVars, queryp, mapperp>>

\* QueryContext / QueryRowContext on queryer q: the rows it sees.
QueryOn(method, ctx, q) ==
    [tx EXCEPT !.ops = @ + 1,
               !.last = IF TxDone(q) THEN LastCalled(method, ctx, q, FALSE, "ErrTxDone", {})
                        ELSE LastCalled(method, ctx, q, FALSE, "nil", Visible(q))]

\* DB.Query and DB.QueryRow, and DB.Get and DB.Select, which run their
\* statement through db.Query(ctx, ...).
Read(method, ctx) ==
    /\ tx.ops < MaxOps
    /\ tx' = QueryOn(method, ctx, queryer(ctx))
    /\ UNCHANGED <<reflectVars, queryp, mapperp>>

\* A RunInTx call in progress: the transaction it uses, whether it began
\* it, and the rows its callback wrote on it.
Frame(ctx, began, t) == [ctx |-> ctx, began |-> began, tx |-> t, wrote |-> {}]

\* db.DB.BeginTx failed: RunInTx returns the error.
BeginFailed(ctx) ==
    [tx EXCEPT !.last = LastCalled("RunInTx", ctx, Pool, FALSE, "begin failed", {}),
               !.done = [NoDone EXCEPT !.returned = "begin failed"]]

\* RunInTx up to fn(ctx), t being the context's transaction: a new
\* transaction is begun when there is none.
Entered(ctx, t) ==
    IF t = NilTx
    THEN [tx EXCEPT !.txs = Append(@, NewTx),
                    !.frames = Append(@, Frame(ctx, TRUE, Len(tx.txs) + 1)),
                    !.last = LastCalled("RunInTx", ctx, Len(tx.txs) + 1, TRUE, "nil", {})]
    ELSE [tx EXCEPT !.frames = Append(@, Frame(ctx, FALSE, t)),
                    !.last = LastCalled("RunInTx", ctx, t, FALSE, "nil", {})]

\* DB.RunInTx(ctx, fn) up to the call of fn.
RunInTx(ctx, beginOk) ==
    /\ Len(tx.frames) < MaxDepth
    /\ txContext(ctx) = NilTx => Len(tx.txs) < MaxTxs
    /\ tx' = IF txContext(ctx) = NilTx /\ ~beginOk THEN BeginFailed(ctx)
             ELSE Entered(ctx, txContext(ctx))
    /\ UNCHANGED <<reflectVars, queryp, mapperp>>

\* The deferred function of a call that began its transaction:
\* tx.Rollback(), sql.ErrTxDone being ignored.
Deferred(txs, f, depth) == IF f.began THEN Rollback(txs, f.tx, depth) ELSE txs

\* What RunInTx returns when fn returned result.
ReturnValue(f, result) ==
    IF result # "nil" THEN result
    ELSE IF tx.txs[f.tx].state = "open" THEN "nil" ELSE "ErrTxDone"

\* The frames after the call at depth returned: the rows it wrote on the
\* caller's transaction are the caller's callback's too.
Popped(frames, depth) ==
    IF depth = 1 THEN <<>>
    ELSE [SubSeq(frames, 1, depth - 1) EXCEPT ![depth - 1].wrote =
            IF frames[depth - 1].tx = frames[depth].tx
            THEN @ \cup frames[depth].wrote ELSE @]

\* RunInTx from the return of fn on, txs being the transactions after
\* Commit (if any) and the deferred Rollback.
Finished(f, depth, result, txs) ==
    [tx EXCEPT !.txs = txs,
               !.pool = IF txs[f.tx].state = "committed" /\ tx.txs[f.tx].state = "open"
                        THEN @ \cup tx.txs[f.tx].writes ELSE @,
               !.frames = Popped(@, depth),
               !.done = [began |-> f.began, tx |-> f.tx, depth |-> depth,
                         result |-> result, returned |-> ReturnValue(f, result),
                         wrote |-> f.wrote]]

\* fn returns result: the error is returned, or tx.Commit() runs; then the
\* deferred function.
CallbackReturns(result) ==
    /\ tx.frames # <<>>
    /\ tx' = Finished(tx.frames[Len(tx.frames)], Len(tx.frames), result,
                      Deferred(IF result = "nil"
                               THEN Commit(tx.txs, tx.frames[Len(tx.frames)].tx, Len(tx.frames))
                               ELSE tx.txs,
                               tx.frames[Len(tx.frames)], Len(tx.frames)))
    /\ UNCHANGED <<reflectVars, queryp, mapperp>>

\* fn panics: the deferred function runs as the panic unwinds RunInTx.
CallbackPanics ==
    /\ tx.frames # <<>>
    /\ tx' = Finished(tx.frames[Len(tx.frames)], Len(tx.frames), "panic",
                      Deferred(tx.txs, tx.frames[Len(tx.frames)], Len(tx.frames)))
    /\ UNCHANGED <<reflectVars, queryp, mapperp>>

NextTx ==
    \/ \E ctx \in Ctxs : Exec(ctx)
    \/ \E method \in ReadMethods, ctx \in Ctxs : Read(method, ctx)
    \/ \E ctx \in Ctxs, beginOk \in BOOLEAN : RunInTx(ctx, beginOk)
    \/ \E result \in {"nil", "error"} : CallbackReturns(result)
    \/ CallbackPanics

SpecTx == InitTx /\ [][NextTx]_vars


----------------------------------------------------------------------------
(* Claims about contextual transactions.                                    *)

\* C13: a RunInTx call that begins a transaction ends it exactly once,
\* itself; the transaction is committed if and only if the callback
\* returns nil, and it is rolled back when the callback returns an error
\* (which RunInTx returns unchanged) or panics, so that none of the rows the
\* callback wrote on it are visible afterwards.
C13_TxLifecycle ==
    tx.done.began =>
      /\ tx.txs[tx.done.tx].state # "open"
      /\ tx.txs[tx.done.tx].ender = tx.done.depth
      /\ (tx.done.result = "nil") <=> (tx.txs[tx.done.tx].state = "committed")
      /\ tx.done.result \in {"error", "panic"} =>
           /\ tx.txs[tx.done.tx].state = "rolledback"
           /\ tx.done.wrote \cap tx.pool = {}
      /\ tx.done.result = "error" => tx.done.returned = "error"


\* C14: every DB method (Exec, Query, QueryRow, Get, Select, a nested
\* RunInTx) called with a context that carries a transaction runs on that
\* transaction and begins no new one; called with a context that carries
\* none it runs directly on the pool, also while a RunInTx callback is in
\* progress: a row inserted is in the transaction's writes or in the pool
\* accordingly, and a read on the pool sees committed rows only.
C14_ContextualRouting ==
    /\ tx.last.method \in ReadMethods \cup {"Exec", "RunInTx"} /\ tx.last.ctx # NilTx =>
         /\ tx.last.on = tx.last.ctx
         /\ ~tx.last.begun
    /\ tx.last.method \in ReadMethods \cup {"Exec"} /\ tx.last.ctx = NilTx =>
         /\ tx.last.on = Pool
         /\ ~tx.last.begun
    /\ tx.last.method = "Exec" /\ tx.last.err = "nil" =>
         IF tx.last.ctx = NilTx THEN tx.last.seen \subseteq tx.pool
         ELSE tx.last.seen \subseteq tx.txs[tx.last.ctx].writes
    /\ tx.last.method \in ReadMethods /\ tx.last.err = "nil" =>
         IF tx.last.ctx = NilTx THEN tx.last.seen \subseteq tx.pool
         ELSE tx.last.seen \subseteq tx.pool \cup tx.txs[tx.last.ctx].writes

\* Inside a nested RunInTx that joined the one open transaction, holding a
\* row not yet committed, a Get with a context without transaction has run
\* on the pool and has not seen the row.
C14_Witness ==
    /\ Len(tx.frames) = 2
    /\ Len(tx.txs) = 1
    /\ ~tx.frames[2].began
    /\ tx.frames[2].tx = tx.frames[1].tx
    /\ tx.txs[1].state = "open"
    /\ tx.txs[1].writes # {}
    /\ tx.last.method = "Get"
    /\ tx.last.inCallback
    /\ tx.last.ctx = NilTx
    /\ tx.last.on = Pool
    /\ tx.last.seen \cap tx.txs[1].writes = {}


\* C28: a RunInTx call that found the transaction in its context and whose
\* callback returned nil has left that transaction open; a transaction
\* stays open for as long as the call that began it has not returned, so
\* that only that call commits it.
C28_NestedCallLeavesTxOpen ==
    /\ \A i \in DOMAIN tx.frames :
          tx.frames[i].began => tx.txs[tx.frames[i].tx].state = "open"
    /\ (tx.done.tx # NilTx /\ ~tx.done.began /\ tx.done.result = "nil"
          /\ tx.frames # <<>> /\ tx.frames[Len(tx.frames)].tx = tx.done.tx) =>
             tx.txs[tx.done.tx].ender # tx.done.depth



----------------------------------------------------------------------------
(* Behaviour 7: queryp.NamedQuery.  A query is a sequence of bytes; the     *)
(* parameters are a Go map from key to value, so the order they were set   *)
(* in leaves no trace, and `range n.params` visits the keys in an order    *)
(* the runtime picks anew for every loop.                                   *)

\* Longest query string of the model.
MaxQueryLen == 4

\* The bytes a query is written with.
QueryBytes == {":", "a", "b", " "}

\* The bytes of a parameter name.
NameBytes == {"a", "b"}

\* The parameter keys callers pass to Param.
ParamKeys == { <<"a">>, <<"a", "b">>, <<"b">> }

\* The parameter values.
ParamValues == {1, 2}

\* NewArgs().WithPlaceholderer(p): a nil Placeholderer keeps the default.
Placeholderers == {"nil", "sqlite", "postgres"}

RECURSIVE StringsOfLen(_)
\* All query strings of exactly n bytes.
StringsOfLen(n) ==
    IF n = 0 THEN { <<>> }
    ELSE { <<c>> \o s : c \in QueryBytes, s \in StringsOfLen(n - 1) }

QueryStrings == UNION { StringsOfLen(n) : n \in 0..MaxQueryLen }

\* fmt.Sprintf("%d", n) for the small numbers of the model.
Itoa(n) == << <<"0">>, <<"1">>, <<"2">>, <<"3">>, <<"4">>, <<"5">>, <<"6">>,
              <<"7">>, <<"8">>, <<"9">> >>[n + 1]

\* SqlitePlaceholderer / PostgresPlaceholderer for argument index i
\* (0-based); NewArgs defaults to SqlitePlaceholderer.
Placeholder(p, i) ==
    IF p = "postgres" THEN <<"$">> \o Itoa(i + 1) ELSE <<"?">>

\* n.query[i:] for a 1-based position i.
From(query, i) == SubSeq(query, i, Len(query))

\* strings.HasPrefix(n.query[i:], fmt.Sprintf(":%s", k)).
HasPrefix(s, k) == IsPrefix(<<":">> \o k, s)

\* The keys for which build's inner loop can break at position i: the
\* first key of the map iteration that matches, any matching key for some
\* iteration order.
Matches(query, params, i) ==
    IF query[i] = ":" THEN { k \in DOMAIN params : HasPrefix(From(query, i), k) }
    ELSE {}

RECURSIVE build(_, _, _, _, _, _)

\* One pass of build's outer loop at position i with the keys that match.
buildAt(query, params, p, i, q, args, matches) ==
    IF matches = {}
    THEN build(query, params, p, i + 1, Append(q, query[i]), args)
    ELSE UNION { build(query, params, p, i + Len(k) + 1,
                       q \o Placeholder(p, Len(args)), Append(args, params[k]))
                 : k \in matches }

\* NamedQuery.build from position i on, with q written so far and args
\* added so far: the results the map iteration orders can give.
build(query, params, p, i, q, args) ==
    IF i > Len(query) THEN { [query |-> q, args |-> args] }
    ELSE buildAt(query, params, p, i, q, args, Matches(query, params, i))

NotBuilt == [query |-> <<"nil">>, args |-> <<-1>>]

\* Named(query).  returned holds what String, Args and Execute have given
\* the caller since the last mutator.
Named(query) ==
    [phase |-> "named", query |-> query, params |-> EmptyMap,
     placeholderer |-> "nil", built |-> NotBuilt, calls |-> 0,
     returned |-> NotBuilt]

\* Mutators that leave a built result in place.
keepBuilt(n) == [n EXCEPT !.returned = NotBuilt]

\* NamedQuery.reset: builtArgs = nil, builtQuery = "".
reset(n) == [n EXCEPT !.built = NotBuilt, !.returned = NotBuilt]

InitNamed ==
    /\ rootDef = NoRoot
    /\ fieldsCache = EmptyCache
    /\ fieldCache = EmptyCache
    /\ lastCall = NoCall
    /\ gor = IdleGor
    /\ nextId = 1
    /\ scan = NoScan
    /\ db = NoDB
    /\ tx = NoTx
    /\ queryp \in { Named(query) : query \in QueryStrings }
    /\ mapperp = NoMapper

\* n.params[key] = v.
SetParam(params, key, v) ==
    [k \in DOMAIN params \cup {key} |-> IF k = key THEN v ELSE params[k]]

RECURSIVE SetAll(_, _, _)
\* for k, v := range params { params[k] = v }, over the keys still to copy.
SetAll(dst, src, keys) ==
    IF keys = {} THEN dst
    ELSE LET k == CHOOSE x \in keys : TRUE
         IN SetAll(SetParam(dst, k, src[k]), src, keys \ {k})

\* NamedQuery.Param(key, v): reset, then set.
Param(key, v) ==
    /\ queryp.phase = "named"
    /\ queryp' = [reset(queryp) EXCEPT !.params = SetParam(@, key, v)]
    /\ UNCHANGED <<reflectVars, tx, mapperp>>

\* NamedQuery.WithPlaceholderer(p): reset, then set.
WithPlaceholderer(p) ==
    /\ queryp.phase = "named"
    /\ queryp' = [reset(queryp) EXCEPT !.placeholderer = p]
    /\ UNCHANGED <<reflectVars, tx, mapperp>>

\* NamedQuery.Execute (String and Args alike): build unless built already,
\* return builtQuery and builtArgs.Args().
Execute ==
    /\ queryp.phase = "named"
    /\ IF queryp.built = NotBuilt
       THEN \E r \in build(queryp.query, queryp.params, queryp.placeholderer,
                           1, <<>>, <<>>) :
               queryp' = [queryp EXCEPT !.built = r, !.calls = 1, !.returned = r]
       ELSE queryp' = [queryp EXCEPT !.calls = 2, !.returned = queryp.built]
    /\ UNCHANGED <<reflectVars, tx, mapperp>>

NextNamed ==
    \/ \E key \in ParamKeys, v \in ParamValues : Param(key, v)
    \/ \E p \in Placeholderers : WithPlaceholderer(p)
    \/ Execute

SpecNamed == InitNamed /\ [][NextNamed]_vars

\* The query texts of the calls that change the text of a NamedQuery.
LazyQueries == { <<":", "a">>, <<":", "b", " ", ":", "a">>, <<":", "a", "b">> }

\* The maps passed to NamedQuery.Params.
NamedParamMaps ==
    UNION { [ks -> ParamValues] : ks \in {{<<"a">>, <<"b">>}, {<<"a", "b">>}} }

InitLazy ==
    /\ rootDef = NoRoot
    /\ fieldsCache = EmptyCache
    /\ fieldCache = EmptyCache
    /\ lastCall = NoCall
    /\ gor = IdleGor
    /\ nextId = 1
    /\ scan = NoScan
    /\ db = NoDB
    /\ tx = NoTx
    /\ queryp \in { Named(query) : query \in LazyQueries }
    /\ mapperp = NoMapper

\* NamedQuery.WithQuery(q): reset, then set.
WithQuery(q) ==
    /\ queryp.phase = "named"
    /\ queryp' = [reset(queryp) EXCEPT !.query = q]
    /\ UNCHANGED <<reflectVars, tx, mapperp>>

\* NamedQuery.Params(m): reset, then every entry of m is set.
Params(m) ==
    /\ queryp.phase = "named"
    /\ queryp' = [reset(queryp) EXCEPT !.params = SetAll(@, m, DOMAIN m)]
    /\ UNCHANGED <<reflectVars, tx, mapperp>>

\* The NamedQuery after `if n.builtArgs == nil { n.build() }`, r being
\* what build gives.
Ensured(n, r) == IF n.built = NotBuilt THEN [n EXCEPT !.built = r] ELSE n

\* NamedQuery.String(): build unless built, return builtQuery.
String ==
    /\ queryp.phase = "named"
    /\ \E r \in build(queryp.query, queryp.params, queryp.placeholderer,
                        1, <<>>, <<>>) :
          queryp' = [Ensured(queryp, r) EXCEPT
                       !.returned.query = Ensured(queryp, r).built.query]
    /\ UNCHANGED <<reflectVars, tx, mapperp>>

\* NamedQuery.Args(): build unless built, return builtArgs.Args().
Args ==
    /\ queryp.phase = "named"
    /\ \E r \in build(queryp.query, queryp.params, queryp.placeholderer,
                        1, <<>>, <<>>) :
          queryp' = [Ensured(queryp, r) EXCEPT
                       !.returned.args = Ensured(queryp, r).built.args]
    /\ UNCHANGED <<reflectVars, tx, mapperp>>

NextLazy ==
    \/ \E key \in ParamKeys, v \in ParamValues : Param(key, v)
    \/ \E m \in NamedParamMaps : Params(m)
    \/ \E q \in LazyQueries : WithQuery(q)
    \/ \E p \in Placeholderers : WithPlaceholderer(p)
    \/ String
    \/ Args
    \/ Execute

SpecLazy == InitLazy /\ [][NextLazy]_vars



----------------------------------------------------------------------------
(* Claims about named queries.                                              *)

RECURSIVE NameLen(_, _)
\* The length of the parameter name that starts at position j: the longest
\* run of name bytes.
NameLen(query, j) ==
    IF j <= Len(query) /\ query[j] \in NameBytes THEN 1 + NameLen(query, j + 1)
    ELSE 0

\* The name of the ':name' token whose colon is at position i.
TokenName(query, i) == SubSeq(query, i + 1, i + NameLen(query, i + 1))

RECURSIVE Replaced(_, _, _, _, _, _)
\* The query and arguments the contract describes: each ':k' token of a
\* provided parameter k gives the next placeholder and k's value, in the
\* order of the text; every other byte, tokens of parameters that were not
\* provided included, is copied.
Replaced(query, params, p, i, q, args) ==
    IF i > Len(query) THEN [query |-> q, args |-> args]
    ELSE IF query[i] = ":" /\ TokenName(query, i) \in DOMAIN params
    THEN Replaced(query, params, p, i + 1 + Len(TokenName(query, i)),
                  q \o Placeholder(p, Len(args)),
                  Append(args, params[TokenName(query, i)]))
    ELSE Replaced(query, params, p, i + 1, Append(q, query[i]), args)

\* C16: the built query and Args() are the query with every ':k' token of a
\* provided parameter replaced by the placeholder and the values listed in
\* the order of the tokens in the text; ':name' tokens of parameters that
\* were not provided are unchanged and add no argument.
C16_NamedReplacement ==
    (queryp.phase = "named" /\ queryp.built # NotBuilt) =>
        queryp.built = Replaced(queryp.query, queryp.params,
                                queryp.placeholderer, 1, <<>>, <<>>)


\* C29: the lazily built result of a NamedQuery is never stale.  After
\* any sequence of Param, Params, WithQuery, WithPlaceholderer, String,
\* Args and Execute, a built result held by the query is a result of
\* building the current text, parameters and placeholderer, and what
\* String, Args and Execute have returned since the last mutator is that
\* one built result: the text and the arguments belong to the same build.
C29_LazyBuildNeverStale ==
    queryp.phase = "named" =>
        /\ queryp.built # NotBuilt =>
              queryp.built \in build(queryp.query, queryp.params,
                                     queryp.placeholderer, 1, <<>>, <<>>)
        /\ queryp.returned.query # NotBuilt.query =>
              /\ queryp.built # NotBuilt
              /\ queryp.returned.query = queryp.built.query
        /\ queryp.returned.args # NotBuilt.args =>
              /\ queryp.built # NotBuilt
              /\ queryp.returned.args = queryp.built.args

\* A query rebuilt after a mutator: String and Args have both returned,
\* with an argument bound, after the text was built at least twice.
C29_Witness ==
    /\ queryp.phase = "named"
    /\ queryp.returned.query # NotBuilt.query
    /\ queryp.returned.args # NotBuilt.args
    /\ Len(queryp.returned.args) = 2
    /\ queryp.placeholderer = "postgres"
    /\ queryp.query = <<":", "b", " ", ":", "a">>

\* C30: for the query text, parameters and placeholderer at hand every
\* build gives the same query string and the same arguments as the one
\* that was returned, also when one parameter name is a prefix of another.
C30_BuildDeterministic ==
    (queryp.phase = "named" /\ queryp.built # NotBuilt) =>
        \A r \in build(queryp.query, queryp.params, queryp.placeholderer,
                        1, <<>>, <<>>) : r = queryp.built



----------------------------------------------------------------------------
(* Behaviour 8: queryp.Template and its TemplateBuilders.  Go maps are     *)
(* references: the maps made by newTemplateBuilder live in a heap and a    *)
(* builder holds their addresses.  A text is a sequence of characters and   *)
(* {{...}} actions; Execute runs the actions against the builder's data    *)
(* and hands what they wrote to Named.                                     *)

\* Most builders spun off one Template.
MaxBuilders == 2

\* The texts handed to NewTemplate.
TemplateTexts ==
    { <<":", "a", " ", ":", "b">>,
      <<":", "b", ":", "a">>,
      <<"=", " ", "{{.Param \"a\"}}", "{{if .Includes \"pet\"}}", "P", "{{end}}">>,
      <<":", "b", "{{if .Includes \"pet\"}}", "{{.Missing}}", "{{end}}">> }

\* What template.Parse makes of an element of a text: a call of a method of
\* templateData, the start or the end of an {{if}}, a field templateData
\* does not have, or a character of plain text.
Node(element) ==
    CASE element = "{{.Param \"a\"}}" -> [node |-> "Param", key |-> <<"a">>]
      [] element = "{{.Param \"b\"}}" -> [node |-> "Param", key |-> <<"b">>]
      [] element = "{{if .Includes \"pet\"}}" -> [node |-> "if", key |-> "pet"]
      [] element = "{{end}}" -> [node |-> "end", key |-> ""]
      [] element = "{{.Missing}}" -> [node |-> "field", key |-> "Missing"]
      [] OTHER -> [node |-> "text", key |-> ""]

\* templateData.Param(key): ":key" if the parameter is set, "" if not.
DataParam(params, key) ==
    IF key \in DOMAIN params THEN <<":">> \o key ELSE <<>>

\* templateData.Includes(key), and Include.
DataIncludes(includes, key) == key \in DOMAIN includes

\* "can't evaluate field": text/template's error for a field the data
\* does not have.
ExecError == "can't evaluate field"

RECURSIVE textExecute(_, _, _, _, _)
\* t.Template.text.Execute(buffer, data) from element i on, buffer being
\* what is written so far and ifs the conditions of the {{if}} blocks
\* open at i: [err, buffer].  An action in a block whose condition is
\* false is not run.
textExecute(text, data, i, ifs, buffer) ==
    IF i > Len(text) THEN [err |-> "nil", buffer |-> buffer]
    ELSE LET n   == Node(text[i])
             run == \A j \in DOMAIN ifs : ifs[j]
         IN CASE n.node = "if" ->
                   textExecute(text, data, i + 1,
                               Append(ifs, run /\ DataIncludes(data.includes, n.key)),
                               buffer)
              [] n.node = "end" ->
                   textExecute(text, data, i + 1, SubSeq(ifs, 1, Len(ifs) - 1), buffer)
              [] n.node = "field" /\ run -> [err |-> ExecError, buffer |-> buffer]
              [] n.node = "Param" /\ run ->
                   textExecute(text, data, i + 1, ifs,
                               buffer \o DataParam(data.params, n.key))
              [] n.node = "text" /\ run ->
                   textExecute(text, data, i + 1, ifs, Append(buffer, text[i]))
              [] OTHER -> textExecute(text, data, i + 1, ifs, buffer)

\* The parameter keys and associations of the model.
TemplateKeys == { <<"a">>, <<"b">> }
Associations == { "pet" }

\* The values callers give to a key.
TemplateValues(key) == IF key = <<"a">> THEN {1} ELSE {2}

\* The maps passed to Params: one or two keys.
ParamMaps ==
    { m \in UNION { [ks -> ParamValues] : ks \in (SUBSET TemplateKeys) \ {{}} } :
        \A k \in DOMAIN m : m[k] \in TemplateValues(k) }

\* The placeholderers passed to Placeholderer.
TemplatePlaceholderers == {"nil", "postgres"}

NoOut == [query |-> <<"nil">>, args |-> <<"nil">>, err |-> "none"]
NoArg == <<"nil">>

\* A Template whose builders all share the two maps made first.
sharedTemplateBuilder(heap) ==
    IF heap = <<>>
    THEN [builder |-> [params |-> 1, includes |-> 2, placeholderer |-> "nil"],
          heap |-> <<EmptyMap, EmptyMap>>]
    ELSE [builder |-> [params |-> 1, includes |-> 2, placeholderer |-> "nil"],
          heap |-> heap]

\* newTemplateBuilder(t): two maps are made and the builder points at them.
newTemplateBuilder(heap) ==
    [builder |-> [params |-> Len(heap) + 1, includes |-> Len(heap) + 2,
                  placeholderer |-> "nil"],
     heap |-> heap \o <<EmptyMap, EmptyMap>>]

\* NewTemplate(text).
NewTemplate(text) ==
    [phase |-> "template", template |-> [text |-> text], heap |-> <<>>,
     builders |-> <<>>, acted |-> 0, method |-> "NewTemplate", arg |-> NoArg,
     out |-> NoOut]

InitTemplate ==
    /\ rootDef = NoRoot
    /\ fieldsCache = EmptyCache
    /\ fieldCache = EmptyCache
    /\ lastCall = NoCall
    /\ gor = IdleGor
    /\ nextId = 1
    /\ scan = NoScan
    /\ db = NoDB
    /\ tx = NoTx
    /\ queryp \in { NewTemplate(text) : text \in TemplateTexts }
    /\ mapperp = NoMapper

\* TemplateBuilder.Params(params) on builder b.
BuilderParamsOn(q, b, params, method) ==
    [q EXCEPT !.heap[q.builders[b].params] = SetAll(@, params, DOMAIN params),
              !.acted = b, !.method = method, !.arg = params, !.out = NoOut]

\* TemplateBuilder.Include(assoc) on builder b.
BuilderIncludeOn(q, b, assoc, method) ==
    [q EXCEPT !.heap[q.builders[b].includes] = SetParam(@, assoc, TRUE),
              !.acted = b, !.method = method, !.arg = assoc, !.out = NoOut]

\* TemplateBuilder.Placeholderer(p) on builder b.
BuilderPlaceholdererOn(q, b, p, method) ==
    [q EXCEPT !.builders[b].placeholderer = p,
              !.acted = b, !.method = method, !.arg = p, !.out = NoOut]

\* TemplateBuilder.Execute on builder b returning r: the text is executed
\* against the builder's data and handed to Named(...).WithPlaceholderer(
\* t.placeholderer).Params(t.params).Execute().
BuilderExecuteOn(q, b, r, method) ==
    [q EXCEPT !.acted = b, !.method = method, !.arg = NoArg,
              !.out = [query |-> r.query, args |-> r.args, err |-> r.err]]

\* The rest of Execute once the text has been executed with result r:
\* "", nil and the error, or what Named(buffer.String()) builds.
NamedExecuted(r, params, p) ==
    IF r.err # "nil" THEN { [query |-> <<>>, args |-> <<>>, err |-> r.err] }
    ELSE { [query |-> x.query, args |-> x.args, err |-> "nil"] :
             x \in build(r.buffer, params, p, 1, <<>>, <<>>) }

\* What Execute on builder b can return.
Executed(q, b) ==
    NamedExecuted(textExecute(q.template.text,
                              [params |-> q.heap[q.builders[b].params],
                               includes |-> q.heap[q.builders[b].includes]],
                              1, <<>>, <<>>),
                  q.heap[q.builders[b].params], q.builders[b].placeholderer)

\* Template.Build(): the Template with one more builder.
Built1(q, nb) ==
    [q EXCEPT !.heap = nb.heap, !.builders = Append(@, nb.builder),
              !.acted = Len(q.builders) + 1, !.method = "Build",
              !.arg = NoArg, !.out = NoOut]

TemplateBuild ==
    /\ queryp.phase = "template"
    /\ Len(queryp.builders) < MaxBuilders
    /\ queryp' = Built1(queryp, newTemplateBuilder(queryp.heap))
    /\ UNCHANGED <<reflectVars, tx, mapperp>>

\* Template.Params(params): t.Build().Params(params).
TemplateParams(params) ==
    /\ queryp.phase = "template"
    /\ Len(queryp.builders) < MaxBuilders
    /\ queryp' = BuilderParamsOn(Built1(queryp, newTemplateBuilder(queryp.heap)),
                                 Len(queryp.builders) + 1, params, "Template.Params")
    /\ UNCHANGED <<reflectVars, tx, mapperp>>

\* Template.Param(key, val): t.Build().Param(key, val).
TemplateParam(key, val) ==
    /\ queryp.phase = "template"
    /\ Len(queryp.builders) < MaxBuilders
    /\ queryp' = BuilderParamsOn(Built1(queryp, newTemplateBuilder(queryp.heap)),
                                 Len(queryp.builders) + 1, SetParam(EmptyMap, key, val),
                                 "Template.Param")
    /\ UNCHANGED <<reflectVars, tx, mapperp>>

\* Template.Include(assoc): t.Build().Include(assoc).
TemplateInclude(assoc) ==
    /\ queryp.phase = "template"
    /\ Len(queryp.builders) < MaxBuilders
    /\ queryp' = BuilderIncludeOn(Built1(queryp, newTemplateBuilder(queryp.heap)),
                                  Len(queryp.builders) + 1, assoc, "Template.Include")
    /\ UNCHANGED <<reflectVars, tx, mapperp>>

\* Template.Placeholderer(p): t.Build().Placeholderer(p).
TemplatePlaceholderer(p) ==
    /\ queryp.phase = "template"
    /\ Len(queryp.builders) < MaxBuilders
    /\ queryp' = BuilderPlaceholdererOn(Built1(queryp, newTemplateBuilder(queryp.heap)),
                                        Len(queryp.builders) + 1, p,
                                        "Template.Placeholderer")
    /\ UNCHANGED <<reflectVars, tx, mapperp>>

\* The Template with a new builder that has executed.
BuiltAndExecuted(q) ==
    { BuilderExecuteOn(q, Len(q.builders), r, "Template.Execute")
        : r \in Executed(q, Len(q.builders)) }

\* Template.Execute(): t.Build().Execute().
TemplateExecute ==
    /\ queryp.phase = "template"
    /\ Len(queryp.builders) < MaxBuilders
    /\ queryp' \in BuiltAndExecuted(Built1(queryp, newTemplateBuilder(queryp.heap)))
    /\ UNCHANGED <<reflectVars, tx, mapperp>>

\* TemplateBuilder.Params(params) on an existing builder.
BuilderParams(b, params) ==
    /\ queryp.phase = "template"
    /\ b \in DOMAIN queryp.builders
    /\ queryp' = BuilderParamsOn(queryp, b, params, "Params")
    /\ UNCHANGED <<reflectVars, tx, mapperp>>

\* TemplateBuilder.Param(key, val): t.Params(map[string]any{key: val}).
BuilderParam(b, key, val) ==
    /\ queryp.phase = "template"
    /\ b \in DOMAIN queryp.builders
    /\ queryp' = BuilderParamsOn(queryp, b, SetParam(EmptyMap, key, val), "Param")
    /\ UNCHANGED <<reflectVars, tx, mapperp>>

\* TemplateBuilder.Include(assoc) on an existing builder.
BuilderInclude(b, assoc) ==
    /\ queryp.phase = "template"
    /\ b \in DOMAIN queryp.builders
    /\ queryp' = BuilderIncludeOn(queryp, b, assoc, "Include")
    /\ UNCHANGED <<reflectVars, tx, mapperp>>

\* TemplateBuilder.Placeholderer(p) on an existing builder.
BuilderPlaceholderer(b, p) ==
    /\ queryp.phase = "template"
    /\ b \in DOMAIN queryp.builders
    /\ queryp' = BuilderPlaceholdererOn(queryp, b, p, "Placeholderer")
    /\ UNCHANGED <<reflectVars, tx, mapperp>>

\* TemplateBuilder.Execute() on an existing builder.
BuilderExecute(b) ==
    /\ queryp.phase = "template"
    /\ b \in DOMAIN queryp.builders
    /\ \E r \in Executed(queryp, b) :
          queryp' = BuilderExecuteOn(queryp, b, r, "Execute")
    /\ UNCHANGED <<reflectVars, tx, mapperp>>

NextTemplate ==
    \/ TemplateBuild
    \/ \E params \in ParamMaps : TemplateParams(params)
    \/ \E key \in TemplateKeys : \E val \in TemplateValues(key) :
          TemplateParam(key, val)
    \/ \E assoc \in Associations : TemplateInclude(assoc)
    \/ \E p \in TemplatePlaceholderers : TemplatePlaceholderer(p)
    \/ TemplateExecute
    \/ \E b \in 1..MaxBuilders, params \in ParamMaps : BuilderParams(b, params)
    \/ \E b \in 1..MaxBuilders, key \in TemplateKeys :
          \E val \in TemplateValues(key) : BuilderParam(b, key, val)
    \/ \E b \in 1..MaxBuilders, assoc \in Associations : BuilderInclude(b, assoc)
    \/ \E b \in 1..MaxBuilders, p \in TemplatePlaceholderers :
          BuilderPlaceholderer(b, p)
    \/ \E b \in 1..MaxBuilders : BuilderExecute(b)

SpecTemplate == InitTemplate /\ [][NextTemplate]_vars



----------------------------------------------------------------------------
(* Claims about templates.                                                  *)

\* What builder b of q holds: its parameters, includes and placeholderer.
View(q, b) ==
    [params |-> q.heap[q.builders[b].params],
     includes |-> q.heap[q.builders[b].includes],
     placeholderer |-> q.builders[b].placeholderer]

\* The methods of Template.
TemplateMethods ==
    {"Build", "Template.Params", "Template.Param", "Template.Include",
     "Template.Placeholderer", "Template.Execute"}

\* What a builder holds when nothing but the call (method, arg) has set
\* anything on it.
OnlySet(method, arg) ==
    [params |-> IF method \in {"Template.Params", "Template.Param"} THEN arg
                ELSE EmptyMap,
     includes |-> IF method = "Template.Include" THEN SetParam(EmptyMap, arg, TRUE)
                  ELSE EmptyMap,
     placeholderer |-> IF method = "Template.Placeholderer" THEN arg ELSE "nil"]

\* One call on a Template or on one of its builders leaves the Template and
\* every other builder as they were, and a call on the Template gives a new
\* builder holding only what that call set.
TemplateStep ==
    (queryp.phase = "template" /\ queryp'.phase = "template") =>
        /\ queryp'.template = queryp.template
        /\ \A b \in DOMAIN queryp.builders :
              b # queryp'.acted => View(queryp', b) = View(queryp, b)
        /\ queryp'.method \in TemplateMethods =>
              /\ Len(queryp'.builders) = Len(queryp.builders) + 1
              /\ queryp'.acted = Len(queryp'.builders)
              /\ View(queryp', queryp'.acted) = OnlySet(queryp'.method, queryp'.arg)

\* C17: every Template method starts a fresh TemplateBuilder: parameters,
\* includes and placeholderer set through one builder never appear in
\* another builder of the same Template, and the Template is never
\* modified.
C17_TemplateReusable == [][TemplateStep]_vars

\* Two builders of the template ":a :b": the first holds a = 1, the include
\* pet and the Postgres placeholderer; the second was given b = 2 only and
\* its Execute has returned ":a ?" with the one argument 2.
C17_Witness ==
    /\ queryp.phase = "template"
    /\ queryp.template.text = <<":", "a", " ", ":", "b">>
    /\ Len(queryp.builders) = 2
    /\ View(queryp, 1) = [params |-> SetParam(EmptyMap, <<"a">>, 1),
                          includes |-> SetParam(EmptyMap, "pet", TRUE),
                          placeholderer |-> "postgres"]
    /\ View(queryp, 2) = [params |-> SetParam(EmptyMap, <<"b">>, 2),
                          includes |-> EmptyMap,
                          placeholderer |-> "nil"]
    /\ queryp.method = "Execute"
    /\ queryp.acted = 2
    /\ queryp.out = [query |-> <<":", "a", " ", "?">>, args |-> <<2>>, err |-> "nil"]



----------------------------------------------------------------------------
(* Behaviour 9: mapperp.  A mapper is built once (One, Slice, or Slice     *)
(* with Last(InnerSlice(...)) as in TestMapper_All) and then called on     *)
(* every row; the variables its closures capture (once, currID) live as    *)
(* long as the mapper.  A row carries a person and a pet; an entity is its *)
(* ID, and getData may return nil.                                          *)

\* Most rows handed to one mapper.
MaxMapRows == 3

\* getData(row) == nil.
NilDatum == -1

\* The identifiers in the rows; 0 is the zero value of int64.
EntityIDs == {0, 1, 2}

\* The rows: what getData finds for the person and for the pet.
MapRows == [person : EntityIDs \cup {NilDatum}, pet : EntityIDs \cup {NilDatum}]

\* The person and the pet of a row, as getData returns them.
PersonOf(row) == [ID |-> row.person, Pets |-> <<>>]
PetOf(row) == [ID |-> row.pet]

MapperKinds == {"One", "Slice", "SliceLastInnerSlice"}

\* The mapper just built and the output declared: once == false,
\* currID == 0 in each Slice, `var result person` / `var result []person`.
NewMapper(kind) ==
    [phase |-> "mapping", kind |-> kind, rows |-> <<>>,
     out |-> IF kind = "One" THEN [ID |-> 0, Pets |-> <<>>] ELSE <<>>,
     once |-> FALSE, currID |-> 0, innerCurrID |-> 0]

InitMapper ==
    /\ rootDef = NoRoot
    /\ fieldsCache = EmptyCache
    /\ fieldCache = EmptyCache
    /\ lastCall = NoCall
    /\ gor = IdleGor
    /\ nextId = 1
    /\ scan = NoScan
    /\ db = NoDB
    /\ tx = NoTx
    /\ queryp = NoQuery
    /\ mapperp \in { NewMapper(kind) : kind \in MapperKinds }

\* One's mapper without the once flag: every row with data overwrites.
EveryRow(out, once, nil, datum) ==
    IF nil THEN [out |-> out, once |-> once]
    ELSE [out |-> datum, once |-> TRUE]

\* One's mapper: the first datum that is not nil is copied to *out.
One(out, once, nil, datum) ==
    IF once THEN [out |-> out, once |-> once]
    ELSE IF nil THEN [out |-> out, once |-> once]
    ELSE [out |-> datum, once |-> TRUE]

\* Slice's mapper: datum check, new entity check against currID, append.
Slice(out, currID, nil, datum) ==
    IF nil THEN [out |-> out, currID |-> currID]
    ELSE IF datum.ID = currID THEN [out |-> out, currID |-> currID]
    ELSE [out |-> Append(out, datum), currID |-> datum.ID]

\* Inner(getInner, inner...) applied to the entity e with getInner
\* returning &e.Pets and Slice as the inner mapper.
InnerSlice(e, currID, nil, datum) ==
    [e |-> [e EXCEPT !.Pets = Slice(@, currID, nil, datum).out],
     currID |-> Slice(e.Pets, currID, nil, datum).currID]

\* Last(inner...): nothing on an empty slice, else inner on the last
\* element.
Last(out, currID, nil, datum) ==
    IF Len(out) = 0 THEN [out |-> out, currID |-> currID]
    ELSE [out |-> [out EXCEPT ![Len(out)] =
                     InnerSlice(out[Len(out)], currID, nil, datum).e],
          currID |-> InnerSlice(out[Len(out)], currID, nil, datum).currID]

\* The row mapper One(getData) called on row.
MapOne(row) ==
    /\ mapperp.phase = "mapping" /\ mapperp.kind = "One"
    /\ Len(mapperp.rows) < MaxMapRows
    /\ \E r \in {One(mapperp.out, mapperp.once, row.person = NilDatum, PersonOf(row))} :
          mapperp' = [mapperp EXCEPT !.rows = Append(@, row), !.out = r.out,
                                     !.once = r.once]
    /\ UNCHANGED <<reflectVars, tx, queryp>>

\* The row mapper Slice(getID, getData) called on row.
MapSlice(row) ==
    /\ mapperp.phase = "mapping" /\ mapperp.kind = "Slice"
    /\ Len(mapperp.rows) < MaxMapRows
    /\ \E r \in {Slice(mapperp.out, mapperp.currID, row.person = NilDatum,
                       PersonOf(row))} :
          mapperp' = [mapperp EXCEPT !.rows = Append(@, row), !.out = r.out,
                                     !.currID = r.currID]
    /\ UNCHANGED <<reflectVars, tx, queryp>>

\* All(first, rest...): Slice's own mapper, then Last(InnerSlice(...)) on
\* what it left.
AllNested(m, row, first) ==
    [m EXCEPT !.rows = Append(@, row),
              !.out = Last(first.out, m.innerCurrID, row.pet = NilDatum, PetOf(row)).out,
              !.currID = first.currID,
              !.innerCurrID =
                  Last(first.out, m.innerCurrID, row.pet = NilDatum, PetOf(row)).currID]

\* The row mapper Slice(getID, getData, Last(InnerSlice(...))) called on
\* row.
MapSliceLastInnerSlice(row) ==
    /\ mapperp.phase = "mapping" /\ mapperp.kind = "SliceLastInnerSlice"
    /\ Len(mapperp.rows) < MaxMapRows
    /\ mapperp' = AllNested(mapperp, row,
                            Slice(mapperp.out, mapperp.currID,
                                  row.person = NilDatum, PersonOf(row)))
    /\ UNCHANGED <<reflectVars, tx, queryp>>

NextMapper ==
    \/ \E row \in MapRows : MapOne(row)
    \/ \E row \in MapRows : MapSlice(row)
    \/ \E row \in MapRows : MapSliceLastInnerSlice(row)

SpecMapper == InitMapper /\ [][NextMapper]_vars



----------------------------------------------------------------------------
(* Claims about mappers.                                                    *)

\* C18: in the output of Slice no entity has the identifier 0: a row whose
\* datum has identifier 0 has never appended an entity, whatever rows came
\* before it.
C18_ZeroIdentifierIsNull ==
    (mapperp.phase = "mapping" /\ mapperp.kind = "Slice") =>
        \A i \in DOMAIN mapperp.out : mapperp.out[i].ID # 0

RECURSIVE FirstDatum(_, _)
\* The datum of the first row from position i on for which getData is not
\* nil; the zero person when there is none.
FirstDatum(rows, i) ==
    IF i > Len(rows) THEN [ID |-> 0, Pets |-> <<>>]
    ELSE IF rows[i].person # NilDatum THEN PersonOf(rows[i])
    ELSE FirstDatum(rows, i + 1)

\* C19: after any sequence of rows the output of One is the datum of the
\* first row for which getData returned non-nil; later rows do not
\* overwrite it.
C19_OneKeepsFirst ==
    (mapperp.phase = "mapping" /\ mapperp.kind = "One") =>
        mapperp.out = FirstDatum(mapperp.rows, 1)

\* One has seen a row without data, then person 2, then person 1, and
\* holds person 2.
C19_Witness ==
    /\ mapperp.phase = "mapping" /\ mapperp.kind = "One"
    /\ Len(mapperp.rows) = 3
    /\ mapperp.rows[1].person = NilDatum
    /\ mapperp.rows[2].person = 2
    /\ mapperp.rows[3].person = 1
    /\ mapperp.out.ID = 2

RECURSIVE Distinct(_)
\* The elements of ids in order of first appearance, once each.
Distinct(ids) ==
    IF ids = <<>> THEN <<>>
    ELSE LET front == Distinct(SubSeq(ids, 1, Len(ids) - 1))
         IN IF ids[Len(ids)] \in SeqToSet(front) THEN front
            ELSE Append(front, ids[Len(ids)])

RECURSIVE ParentIDs(_)
\* The identifiers of the persons in the rows, nil data and the null
\* identifier 0 left out, in row order.
ParentIDs(rows) ==
    IF rows = <<>> THEN <<>>
    ELSE IF rows[Len(rows)].person \in {NilDatum, 0}
    THEN ParentIDs(SubSeq(rows, 1, Len(rows) - 1))
    ELSE Append(ParentIDs(SubSeq(rows, 1, Len(rows) - 1)), rows[Len(rows)].person)

RECURSIVE ChildIDs(_, _)
\* The identifiers of the pets in the rows of parent p, nil data and the
\* null identifier 0 left out, in row order.
ChildIDs(rows, p) ==
    IF rows = <<>> THEN <<>>
    ELSE IF rows[Len(rows)].person # p \/ rows[Len(rows)].pet \in {NilDatum, 0}
    THEN ChildIDs(SubSeq(rows, 1, Len(rows) - 1), p)
    ELSE Append(ChildIDs(SubSeq(rows, 1, Len(rows) - 1), p), rows[Len(rows)].pet)

\* The parents of the rows, once each in order of first appearance.
Parents(rows) == Distinct(ParentIDs(rows))

\* The children in the rows of parent p, once each in row order.
Children(rows, p) == Distinct(ChildIDs(rows, p))

\* The rows are grouped by parent: every row has a person, and a parent
\* does not come back after another one.
Grouped(rows) ==
    /\ \A i \in DOMAIN rows : rows[i].person # NilDatum
    /\ \A i, j, k \in DOMAIN rows :
          (i < j /\ j < k /\ rows[i].person = rows[k].person) =>
              rows[j].person = rows[i].person

\* The identifiers of a slice of entities.
IDs(entities) == [i \in DOMAIN entities |-> entities[i].ID]

\* C20: for rows grouped by parent, the output of
\* Slice(getID, getData, Last(InnerSlice(...))) holds each parent once in
\* order of first appearance, and each parent's inner slice holds the
\* children of that parent's rows, once each, in row order.
C20_OneToManyAccumulation ==
    (mapperp.phase = "mapping" /\ mapperp.kind = "SliceLastInnerSlice"
       /\ Grouped(mapperp.rows)) =>
        /\ IDs(mapperp.out) = Parents(mapperp.rows)
        /\ \A i \in DOMAIN mapperp.out :
              IDs(mapperp.out[i].Pets) = Children(mapperp.rows, mapperp.out[i].ID)

=============================================================================
